---- MODULE Spec2Model ----
(***************************************************************************)
(* Account routing and shared-quota ledger of the Antigravity gateway.     *)
(*                                                                         *)
(* The relational tables (accounts, model_quotas, user_shared_quota_pool)  *)
(* are sets of rows; every service method and SQL function is an operator  *)
(* over the tables, and every handler is an action.  One selection call    *)
(* (MultiAccountClient.getAvailableAccount) runs as a process whose        *)
(* suspension points are its database query, its filter pass and its       *)
(* token refresh; every other handler may run between two of its steps.    *)
(* Quota figures are NUMERIC(10,4) kept as integers of ten-thousandths.    *)
(***************************************************************************)
EXTENDS Integers, Sequences, FiniteSets, TLC

\* ---------------------------------------------------------------- bounds
\* Number of handler runs other than the steps of the selection call.
MaxOps == 3
\* Number of handler runs of the shared-pool ledger.
MaxPoolOps == 5
\* isTokenExpired is probed at instants up to this many safety margins.
MaxProbeMargins == 3
\* Number of clock advances (each of one safety margin).
MaxTicks == 2
\* Handler runs in a behaviour of the four-account ceiling scenario.
MaxCeilingOps == 5
\* Handler runs (authorizations, deletions, exchanges started) in a
\* behaviour of the consumption ledger.
MaxLedgerOps == 3
\* Lines in an upstream response body, and places where it is cut into
\* read chunks (two cuts at one place leave an empty chunk).
MaxLines == 2
MaxCuts == 2
\* Steps that build a JSON schema before it is normalized.
MaxSchemaOps == 3
\* Messages of a chat request.
MaxMessages == 3
\* HTTP requests served in a run, and events one upstream response carries.
MaxRequests == 1
MaxEvents == 2
\* State tokens generateAuthUrl issues in a run.
MaxHandshakes == 1

\* ------------------------------------------------------ program constants
\* account.service.js isTokenExpired: "提前5分钟认为过期".
SafetyMarginMs == 300000
\* update_user_shared_quota_max: v_new_max := 2.0 * v_cookie_count, NUMERIC(10,4).
QuotaPerSharedCookie == 20000
\* oauth.service.js generateAuthUrl and getStateInfo: 5 * 60 * 1000.
StateTtlMs == 300000
\* generateResponse: const CACHE_TTL = 5 * 60 * 1000.
CACHE_TTL == 300000

\* ------------------------------------------------------------ input sets
Users == {"u1", "u2"}
Models == {"m1", "m2", "m3"}
\* The authorization handshakes considered: the pending OAuth state
\* (user_id, is_shared) and the cookie_id derived from the refresh token.
AuthInputs ==
  { [cookie_id |-> "d1", user_id |-> "u1", is_shared |-> 0],
    [cookie_id |-> "s1", user_id |-> "u1", is_shared |-> 1],
    [cookie_id |-> "s4", user_id |-> "u2", is_shared |-> 1] }
\* The handshakes of the shared-pool ledger runs: three shared accounts of
\* one user and one of another.
PoolAuthInputs ==
  { [cookie_id |-> "s1", user_id |-> "u1", is_shared |-> 1],
    [cookie_id |-> "s2", user_id |-> "u1", is_shared |-> 1],
    [cookie_id |-> "s3", user_id |-> "u1", is_shared |-> 1],
    [cookie_id |-> "s4", user_id |-> "u2", is_shared |-> 1] }
\* The handshakes of the ceiling scenario: four shared accounts of one user.
CeilingAuthInputs ==
  { [cookie_id |-> c, user_id |-> "u1", is_shared |-> 1] : c \in {"s1", "s2", "s3", "s5"} }
Cookies == { a.cookie_id : a \in AuthInputs \cup PoolAuthInputs \cup CeilingAuthInputs }
\* Model lists the upstream capability check may return (data.models keys).
ModelLists == { {"m1", "m2"}, {"m3"} }
\* expires_in (seconds) the OAuth provider may return.
ExpiresIn == { 600 }
\* Remaining-quota fraction the upstream reports for a model.
QuotaFractions == { 5000 }
\* Amounts one exchange may draw from a user's shared pool.
Deltas == { 5000, 20000 }
\* The handshakes of the consumption-ledger runs.
LedgerAuthInputs ==
  { [cookie_id |-> "d1", user_id |-> "u1", is_shared |-> 0],
    [cookie_id |-> "s1", user_id |-> "u1", is_shared |-> 1] }
\* Remaining-quota fractions the upstream may report after an exchange: less
\* than, equal to and (after a reset) more than the cached one.
RefreshFractions == { 2500, 5000, 7500 }
\* Which call of the bookkeeping after the read loop throws, if any.
BookkeepingFailures == { "none", "signature", "lookup", "record" }
\* A missing value (SQL NULL, JavaScript null or undefined); a present value
\* v is <<v>>.
NULL == <<>>
\* user.prefer_shared as the caller passes it.
PreferValues == { NULL, <<0>>, <<1>> }

VARIABLES
  accounts,                \* table accounts
  model_quotas,            \* table model_quotas
  user_shared_quota_pool,  \* table user_shared_quota_pool
  now,                     \* Date.now()
  ops,                     \* handler runs so far
  sel,                     \* the getAvailableAccount call in progress
  probe,                   \* last evaluation of a pure function (input, result)
  quota_consumption_log,   \* table quota_consumption_log
  exch,                    \* the generateResponse / generateImage call in progress
  rs,                      \* the response-stream read loop of generateResponse
  route,                   \* the HTTP request being served and its response
  oauth                    \* OAuthService: stateMap, its timers, the handleCallback calls

ledgerVars == <<quota_consumption_log, exch, route, oauth>>

vars == <<accounts, model_quotas, user_shared_quota_pool, now, ops, sel, probe,
          quota_consumption_log, exch, rs, route, oauth>>

\* ------------------------------------------------------------- utilities
Max(a, b) == IF a >= b THEN a ELSE b

ToSet(s) == { s[i] : i \in 1..Len(s) }

\* ORDER BY created_at ASC over a set of account rows.
RECURSIVE OrderByCreatedAt(_)
OrderByCreatedAt(rows) ==
  IF rows = {} THEN <<>>
  ELSE LET first == CHOOSE r \in rows : \A q \in rows : r.created_at <= q.created_at
       IN  <<first>> \o OrderByCreatedAt(rows \ {first})

IsNull(x) == x = NULL

Val(x) == x[1]

\* --------------------------------------------------------- AccountService
\* INSERT INTO accounts (..., status) VALUES (..., 1); need_refresh defaults to
\* FALSE and created_at to the insertion instant (here: the insertion rank).
createAccount(tbl, accountData) ==
  tbl \cup { [ cookie_id    |-> accountData.cookie_id,
               user_id      |-> accountData.user_id,
               is_shared    |-> accountData.is_shared,
               status       |-> 1,
               need_refresh |-> FALSE,
               expires_at   |-> accountData.expires_at,
               created_at   |-> Cardinality(tbl) + 1 ] }

getAccountByCookieId(cookie_id) ==
  { a \in accounts : a.cookie_id = cookie_id }

\* SELECT * FROM accounts WHERE status = 1 AND need_refresh = FALSE
\*   [AND is_shared = $n] [AND user_id = $n] ORDER BY created_at ASC
\* user_id and is_shared are NULL or <<value>>.
getAvailableAccounts(user_id, is_shared) ==
  OrderByCreatedAt(
    { a \in accounts :
        /\ a.status = 1
        /\ a.need_refresh = FALSE
        /\ (is_shared # NULL => a.is_shared = Val(is_shared))
        /\ ((user_id # NULL /\ is_shared # <<1>>) => a.user_id = Val(user_id)) })

updateAccountToken(tbl, cookie_id, expires_at) ==
  { IF a.cookie_id = cookie_id THEN [a EXCEPT !.expires_at = <<expires_at>>] ELSE a
    : a \in tbl }

markAccountNeedRefresh(tbl, cookie_id) ==
  { IF a.cookie_id = cookie_id
    THEN [a EXCEPT !.status = 0, !.need_refresh = TRUE]
    ELSE a
    : a \in tbl }

\* Fault variant: enabling an account clears its need_refresh flag.
updateAccountStatusClearingFlag(tbl, cookie_id, status) ==
  { IF a.cookie_id = cookie_id
    THEN [a EXCEPT !.status = status,
                   !.need_refresh = IF status = 1 THEN FALSE ELSE @]
    ELSE a
    : a \in tbl }

updateAccountStatus(tbl, cookie_id, status) ==
  { IF a.cookie_id = cookie_id THEN [a EXCEPT !.status = status] ELSE a
    : a \in tbl }

\* Fault: the margin compared with > instead of >=.
isTokenExpiredStrict(account, t) ==
  IF IsNull(account.expires_at) \/ Val(account.expires_at) = 0
  THEN TRUE
  ELSE t > Val(account.expires_at) - SafetyMarginMs

\* if (!account.expires_at) return true;
\* return Date.now() >= account.expires_at - 300000;
isTokenExpired(account, t) ==
  IF IsNull(account.expires_at) \/ Val(account.expires_at) = 0
  THEN TRUE
  ELSE t >= Val(account.expires_at) - SafetyMarginMs

\* ----------------------------------------------------------- QuotaService
\* Fixed lookup table of quota-sharing groups.
QuotaSharedGroups == { {"m1", "m2"} }

getQuotaSharedModels(model_name) ==
  IF \E g \in QuotaSharedGroups : model_name \in g
  THEN CHOOSE g \in QuotaSharedGroups : model_name \in g
  ELSE { model_name }

isModelAvailable(cookie_id, model_name) ==
  \E q \in model_quotas :
    q.cookie_id = cookie_id /\ q.model_name = model_name /\ q.status = 1

getUserModelSharedQuotaPool(user_id, model_name) ==
  { r \in user_shared_quota_pool : r.user_id = user_id /\ r.model_name = model_name }

\* Upsert keyed by (cookie_id, model_name): the fraction is refreshed, a new row
\* starts available, an existing row keeps its availability status.
updateQuotasFromModels(tbl, cookie_id, models, fraction) ==
  { IF q.cookie_id = cookie_id /\ q.model_name \in models
    THEN [q EXCEPT !.quota = fraction] ELSE q
    : q \in tbl }
  \cup
  { [cookie_id |-> cookie_id, model_name |-> m, quota |-> fraction, status |-> 1]
    : m \in { x \in models :
                ~ \E q \in tbl : q.cookie_id = cookie_id /\ q.model_name = x } }

updateModelQuotaStatus(tbl, cookie_id, model_name, status) ==
  { IF q.cookie_id = cookie_id /\ q.model_name = model_name
    THEN [q EXCEPT !.status = status] ELSE q
    : q \in tbl }

\* A shared exchange draws its consumption from the user's pool row.
consumeUserSharedQuota(pool, user_id, model_name, delta) ==
  { IF r.user_id = user_id /\ r.model_name = model_name
    THEN [r EXCEPT !.quota = Max(0, r.quota - delta)] ELSE r
    : r \in pool }

\* ------------------------------------------------- SQL functions (schema)
\* Fault: the count forgets the status = 1 condition.
get_user_shared_cookie_count_any_status(accts, p_user_id) ==
  Cardinality({ a \in accts : a.user_id = p_user_id /\ a.is_shared = 1 })

get_user_shared_cookie_count(accts, p_user_id) ==
  Cardinality({ a \in accts :
                  a.user_id = p_user_id /\ a.is_shared = 1 /\ a.status = 1 })

\* Fault: the UPDATE adds the new ceiling to quota instead of GREATEST.
update_user_shared_quota_max_additive(accts, pool, p_user_id, p_model_name) ==
  LET v_new_max == QuotaPerSharedCookie * get_user_shared_cookie_count(accts, p_user_id)
  IN  IF \E r \in pool : r.user_id = p_user_id /\ r.model_name = p_model_name
      THEN { IF r.user_id = p_user_id /\ r.model_name = p_model_name
             THEN [r EXCEPT !.max_quota = v_new_max, !.quota = r.quota + v_new_max]
             ELSE r
             : r \in pool }
      ELSE pool \cup { [ user_id |-> p_user_id, model_name |-> p_model_name,
                         quota |-> v_new_max, max_quota |-> v_new_max ] }

\* Fault: the UPDATE leaves quota of an existing row as it is.
update_user_shared_quota_max_keep(accts, pool, p_user_id, p_model_name) ==
  LET v_new_max == QuotaPerSharedCookie * get_user_shared_cookie_count(accts, p_user_id)
  IN  IF \E r \in pool : r.user_id = p_user_id /\ r.model_name = p_model_name
      THEN { IF r.user_id = p_user_id /\ r.model_name = p_model_name
             THEN [r EXCEPT !.max_quota = v_new_max]
             ELSE r
             : r \in pool }
      ELSE pool \cup { [ user_id |-> p_user_id, model_name |-> p_model_name,
                         quota |-> v_new_max, max_quota |-> v_new_max ] }

\* Fault: the UPDATE resets quota to the new ceiling instead of GREATEST.
update_user_shared_quota_max_reset(accts, pool, p_user_id, p_model_name) ==
  LET v_new_max == QuotaPerSharedCookie * get_user_shared_cookie_count(accts, p_user_id)
  IN  { r \in pool : ~ (r.user_id = p_user_id /\ r.model_name = p_model_name) }
      \cup { [ user_id |-> p_user_id, model_name |-> p_model_name,
               quota |-> v_new_max, max_quota |-> v_new_max ] }

\* UPDATE ... SET max_quota = v_new_max, quota = GREATEST(quota, v_new_max);
\* IF NOT FOUND THEN INSERT (quota, max_quota) VALUES (v_new_max, v_new_max).
update_user_shared_quota_max(accts, pool, p_user_id, p_model_name) ==
  LET v_cookie_count == get_user_shared_cookie_count(accts, p_user_id)
      v_new_max == QuotaPerSharedCookie * v_cookie_count
      found == \E r \in pool : r.user_id = p_user_id /\ r.model_name = p_model_name
  IN  IF found
      THEN { IF r.user_id = p_user_id /\ r.model_name = p_model_name
             THEN [r EXCEPT !.max_quota = v_new_max,
                            !.quota = Max(r.quota, v_new_max)]
             ELSE r
             : r \in pool }
      ELSE pool \cup { [ user_id    |-> p_user_id,
                         model_name |-> p_model_name,
                         quota      |-> v_new_max,
                         max_quota  |-> v_new_max ] }

\* for (const modelName of modelNames)
\*   await quotaService.updateUserSharedQuotaMax(user_id, modelName);
RECURSIVE updateSharedQuotaMaxForModels(_, _, _, _)
updateSharedQuotaMaxForModels(accts, pool, user_id, modelNames) ==
  IF modelNames = {} THEN pool
  ELSE LET modelName == CHOOSE m \in modelNames : TRUE
       IN  updateSharedQuotaMaxForModels(
             accts,
             update_user_shared_quota_max(accts, pool, user_id, modelName),
             user_id,
             modelNames \ {modelName})

\* ------------------------------- MultiAccountClient.getAvailableAccount
\* const preferShared = user?.prefer_shared ?? 0;
PreferShared(user) == IF IsNull(user) THEN 0 ELSE Val(user)

\* Fault: only the preferred pool is queried.
CandidateAccountsPreferredOnly(user_id, preferShared, excludeCookieIds) ==
  LET all == IF preferShared = 1
             THEN getAvailableAccounts(NULL, <<1>>)
             ELSE getAvailableAccounts(<<user_id>>, <<0>>)
      NotExcluded(acc) == acc.cookie_id \notin ToSet(excludeCookieIds)
  IN  SelectSeq(all, NotExcluded)

\* The two pool queries in precedence order, then the exclusion filter.
CandidateAccounts(user_id, preferShared, excludeCookieIds) ==
  LET sharedAccounts == getAvailableAccounts(NULL, <<1>>)
      dedicatedAccounts == getAvailableAccounts(<<user_id>>, <<0>>)
      all == IF preferShared = 1
             THEN sharedAccounts \o dedicatedAccounts
             ELSE dedicatedAccounts \o sharedAccounts
      NotExcluded(acc) == acc.cookie_id \notin ToSet(excludeCookieIds)
  IN  IF Len(excludeCookieIds) > 0 THEN SelectSeq(all, NotExcluded) ELSE all

\* The user has quota in the pool row of some model of the sharing group.
hasQuota(user_id, model_name) ==
  \E sharedModel \in getQuotaSharedModels(model_name) :
    \E userQuota \in getUserModelSharedQuotaPool(user_id, sharedModel) :
      userQuota.quota > 0

\* Fault: the filter loop skips the shared-quota check.
AvailableAccountsNoQuotaCheck(candidates, user_id, model_name) ==
  LET Passes(account) == isModelAvailable(account.cookie_id, model_name)
  IN  SelectSeq(candidates, Passes)

\* The filter loop over the candidates.
AvailableAccounts(candidates, user_id, model_name) ==
  LET Passes(account) ==
        /\ isModelAvailable(account.cookie_id, model_name)
        /\ (account.is_shared = 1 => hasQuota(user_id, model_name))
  IN  SelectSeq(candidates, Passes)

\* Fault: the random choice is made among all available accounts.
SelectedPoolAny(preferShared, availableAccounts) == availableAccounts

\* The pool the random choice is made in.
SelectedPool(preferShared, availableAccounts) ==
  LET IsSharedAcc(acc) == acc.is_shared = 1
      IsDedicatedAcc(acc) == acc.is_shared = 0
      sharedAvailable == SelectSeq(availableAccounts, IsSharedAcc)
      dedicatedAvailable == SelectSeq(availableAccounts, IsDedicatedAcc)
  IN  IF preferShared = 1
      THEN IF Len(sharedAvailable) > 0 THEN sharedAvailable ELSE dedicatedAvailable
      ELSE IF Len(dedicatedAvailable) > 0 THEN dedicatedAvailable ELSE sharedAvailable

\* Fault: invalid_grant leaves the account enabled.
onRefreshErrorFlagOnly(tbl, cookie_id, isInvalidGrant) ==
  IF isInvalidGrant THEN tbl ELSE markAccountNeedRefresh(tbl, cookie_id)

\* catch (refreshError): invalid_grant disables, anything else flags re-auth.
onRefreshError(tbl, cookie_id, isInvalidGrant) ==
  IF isInvalidGrant
  THEN updateAccountStatus(tbl, cookie_id, 0)
  ELSE markAccountNeedRefresh(tbl, cookie_id)

\* Fault: the retry reuses the exclusion list it was given.
newExcludeListUnchanged(excludeCookieIds, cookie_id) == excludeCookieIds

\* const newExcludeList = [...excludeCookieIds, account.cookie_id];
newExcludeList(excludeCookieIds, cookie_id) ==
  Append(excludeCookieIds, cookie_id)

IdleCall ==
  [ pc |-> "idle", user_id |-> "u1", model_name |-> "m1", user |-> NULL,
    excludeCookieIds |-> <<>>, accounts |-> <<>>, account |-> NULL,
    result |-> "none" ]

\* ------------------------------ MultiAccountClient exchange bookkeeping
\* QuotaService.getQuota: the cached model_quotas row's quota, or null.
getQuota(tbl, cookie_id, model_name) ==
  IF \E q \in tbl : q.cookie_id = cookie_id /\ q.model_name = model_name
  THEN << (CHOOSE q \in tbl : q.cookie_id = cookie_id /\ q.model_name = model_name).quota >>
  ELSE NULL

\* Fault: the difference is reported as it is.
consumedUnclamped(quotaBefore, quotaAfter) == quotaBefore - quotaAfter

\* let consumed = parseFloat(quotaBefore) - parseFloat(quotaAfter);
\* if (consumed < 0) consumed = 0;
consumedOf(quotaBefore, quotaAfter) ==
  LET consumed == quotaBefore - quotaAfter
  IN  IF consumed < 0 THEN 0 ELSE consumed

\* The primary key of a new row is fresh among the rows present.
MaxLogId(log) ==
  IF log = {} THEN 0
  ELSE CHOOSE n \in { r.log_id : r \in log } : \A r \in log : r.log_id <= n

\* QuotaService.recordQuotaConsumption: one row per call.
recordQuotaConsumption(log, user_id, cookie_id, model_name, quotaBefore, quotaAfter, is_shared) ==
  log \cup { [ log_id         |-> MaxLogId(log) + 1,
               user_id        |-> user_id,
               cookie_id      |-> cookie_id,
               model_name     |-> model_name,
               quota_before   |-> quotaBefore,
               quota_after    |-> quotaAfter,
               quota_consumed |-> Max(0, quotaBefore - quotaAfter),
               is_shared      |-> is_shared ] }

\* Fault: an error in the bookkeeping block escapes generateResponse.
bookkeepingResultEscapes(failed) == IF failed = "none" THEN "returned" ELSE "thrown"

\* The try / catch blocks after the read loop log the error and go on.
bookkeepingResult(failed) == "returned"

\* DELETE FROM accounts WHERE cookie_id = $1, with the ON DELETE CASCADE
\* constraints fk_quota_cookie and fk_consumption_cookie.
deleteAccount(tbl, cookie_id) == { r \in tbl : r.cookie_id # cookie_id }

IdleExchange ==
  [ pc |-> "idle", kind |-> "chat", user_id |-> "u1", cookie_id |-> "d1",
    is_shared |-> 0, model_name |-> "m1", quotaBefore |-> NULL,
    quotaAfter |-> NULL, consumed |-> NULL, failed |-> "none",
    delivered |-> FALSE, logged |-> FALSE, result |-> "none" ]

\* --------------------------------------- generateResponse: the read loop
\* A string is the sequence of its characters; the body is a sequence of
\* bytes.  "dat" and "a: " are the two halves of the prefix 'data: ', X< and
\* X> the two halves of the JSON text of record X, "c3" "a9" the two bytes of
\* the character "e'", "LF" the line break.
Whitespace == { "SP", "CR", "LF" }

\* A content segment (part) of an upstream record.
Part(thought, text, inlineData, functionCall, thoughtSignature) ==
  [ thought |-> thought, text |-> text, inlineData |-> inlineData,
    functionCall |-> functionCall, thoughtSignature |-> thoughtSignature ]

\* The upstream records of the runs: what JSON.parse returns for the payload
\* of each.  parts and finishReason are NULL when absent.
Records ==
  [ T |-> [ parts |-> << <<Part(FALSE, << <<"h", "i">> >>, NULL, NULL, NULL)>> >>,
            finishReason |-> NULL ],
    W |-> [ parts |-> << <<Part(FALSE, << <<"SP", "LF">> >>, NULL, NULL, NULL)>> >>,
            finishReason |-> NULL ],
    U |-> [ parts |-> << <<Part(FALSE, << <<"e'">> >>, NULL, NULL, NULL)>> >>,
            finishReason |-> NULL ],
    R |-> [ parts |-> << <<Part(TRUE, << <<"t", "h">> >>, NULL, NULL, <<"sig1">>)>> >>,
            finishReason |-> NULL ],
    F |-> [ parts |-> << <<Part(FALSE, NULL, NULL, <<"call1">>, <<"sig2">>),
                          Part(FALSE, NULL, NULL, <<"call2">>, NULL)>> >>,
            finishReason |-> NULL ],
    E |-> [ parts |-> NULL, finishReason |-> <<"STOP">> ] ]

\* The characters of the JSON text of each record.
Payload ==
  [ T |-> <<"T<", "T>">>, W |-> <<"W<", "W>">>, U |-> <<"U<", "e'", "U>">>,
    R |-> <<"R<", "R>">>, F |-> <<"F<", "F>">>, E |-> <<"E<", "E>">> ]

RecordNames == DOMAIN Records

\* The bytes of the lines an upstream body is made of: a record line, a
\* record line ending in CR LF, a data line whose payload is not JSON, an
\* empty line, and a finish record that no line break follows.
Utf8(ch) == IF ch = "e'" THEN <<"c3", "a9">> ELSE <<ch>>

RECURSIVE Encode(_)
Encode(str) == IF str = <<>> THEN <<>> ELSE Utf8(Head(str)) \o Encode(Tail(str))

LineBytes ==
  { <<"dat", "a: ">> \o Encode(Payload[x]) \o <<"LF">> : x \in RecordNames }
  \cup { <<"dat", "a: ">> \o Encode(Payload["T"]) \o <<"CR", "LF">>,
         <<"dat", "a: ", "T<", "LF">>,
         <<"LF">>,
         <<"dat", "a: ">> \o Encode(Payload["E"]) }

\* TextDecoder.decode(value, { stream: true }): an incomplete character at
\* the end of the chunk is kept for the next call.
RECURSIVE decode(_)
decode(bytes) ==
  IF bytes = <<>> THEN [ text |-> <<>>, pending |-> <<>> ]
  ELSE IF Head(bytes) = "c3"
       THEN IF Len(bytes) = 1
            THEN [ text |-> <<>>, pending |-> bytes ]
            ELSE IF bytes[2] = "a9"
                 THEN LET rest == decode(SubSeq(bytes, 3, Len(bytes)))
                      IN  [ text |-> <<"e'">> \o rest.text, pending |-> rest.pending ]
                 ELSE LET rest == decode(Tail(bytes))
                      IN  [ text |-> <<"?">> \o rest.text, pending |-> rest.pending ]
       ELSE LET rest == decode(Tail(bytes))
            IN  [ text |-> <<Head(bytes)>> \o rest.text, pending |-> rest.pending ]

\* buffer.split('\n')
RECURSIVE split(_)
split(str) ==
  IF \E i \in 1..Len(str) : str[i] = "LF"
  THEN LET i == CHOOSE k \in 1..Len(str) :
                  str[k] = "LF" /\ \A j \in 1..(k - 1) : str[j] # "LF"
       IN  <<SubSeq(str, 1, i - 1)>> \o split(SubSeq(str, i + 1, Len(str)))
  ELSE <<str>>

\* String.prototype.trim
RECURSIVE trim(_)
trim(str) ==
  IF str = <<>> THEN str
  ELSE IF Head(str) \in Whitespace THEN trim(Tail(str))
  ELSE IF str[Len(str)] \in Whitespace THEN trim(SubSeq(str, 1, Len(str) - 1))
  ELSE str

\* line.startsWith('data: ')
startsWithData(line) == Len(line) >= 2 /\ line[1] = "dat" /\ line[2] = "a: "

\* JSON.parse(jsonStr): <<record>>, or NULL when it throws.
JSONparse(jsonStr) ==
  IF \E x \in RecordNames : Payload[x] = jsonStr
  THEN << Records[CHOOSE x \in RecordNames : Payload[x] = jsonStr] >>
  ELSE NULL

\* The methods of the SignatureService instance that generateResponse
\* imports.
SignatureServiceMethods ==
  { "generateMessageHash", "storeSignatures", "retrieveSignatures",
    "extractSignaturesFromResponse" }

\* Calling a property that is not a function throws a TypeError.
isCallable(method) == method \in SignatureServiceMethods

\* The first signature token among the parts, or NULL.
RECURSIVE firstSignature(_)
firstSignature(parts) ==
  IF parts = <<>> THEN NULL
  ELSE IF Head(parts).thoughtSignature # NULL THEN Head(parts).thoughtSignature
  ELSE firstSignature(Tail(parts))

\* The locals of the read loop before the first read.
ReaderLocals ==
  [ buffer |-> <<>>, events |-> <<>>, reasoningContent |-> <<>>,
    fullTextContent |-> <<>>, toolCalls |-> <<>>, generatedImages |-> <<>>,
    hasToolCalls |-> FALSE,
    collectedSignature |-> NULL, lastFinishReason |-> NULL, chunkCount |-> 0 ]

\* Lines 335-370: one part of a record.
processPart(st, part) ==
  IF part.thought = TRUE
  THEN LET text == IF part.text = NULL THEN <<>> ELSE Val(part.text)
       IN  [st EXCEPT !.reasoningContent = @ \o text,
                      !.events = Append(@, [type |-> "reasoning", content |-> text])]
  ELSE IF part.text # NULL
  THEN IF trim(Val(part.text)) = <<>>
       THEN st
       ELSE [st EXCEPT !.fullTextContent = @ \o Val(part.text),
                       !.events = Append(@, [type |-> "text", content |-> Val(part.text)])]
  ELSE IF part.inlineData # NULL
  THEN [st EXCEPT !.generatedImages = Append(@, Val(part.inlineData)),
                  !.events = Append(@, [type |-> "image", content |-> Val(part.inlineData)])]
  ELSE IF part.functionCall # NULL
  THEN [st EXCEPT !.hasToolCalls = TRUE,
                  !.toolCalls = Append(@, Val(part.functionCall))]
  ELSE st

RECURSIVE processParts(_, _)
processParts(st, parts) ==
  IF parts = <<>> THEN st
  ELSE processParts(processPart(st, Head(parts)), Tail(parts))

\* Fault variant: the tool calls are flushed at every record.
flushToolCallsAlways(st, data) ==
  IF Len(st.toolCalls) > 0
  THEN [st EXCEPT !.events = Append(@, [type |-> "tool_calls", content |-> st.toolCalls]),
                  !.toolCalls = <<>>]
  ELSE st

\* Lines 373-379: a record with a finish indicator flushes the tool calls.
flushToolCalls(st, data) ==
  IF data.finishReason # NULL /\ Len(st.toolCalls) > 0
  THEN [st EXCEPT !.events = Append(@, [type |-> "tool_calls", content |-> st.toolCalls]),
                  !.toolCalls = <<>>]
  ELSE st

\* Lines 302-383: one parsed record inside the try block; an exception
\* leaves the locals as they are at the throw.
processRecord(st, data) ==
  LET st1 == IF data.finishReason # NULL
             THEN [st EXCEPT !.lastFinishReason = data.finishReason]
             ELSE st
  IN  IF data.parts = NULL
      THEN flushToolCalls(st1, data)
      ELSE IF st1.collectedSignature = NULL
                /\ ~ isCallable("extractSignatureFromResponse")
           THEN st1
           ELSE LET sig == IF st1.collectedSignature = NULL
                           THEN firstSignature(Val(data.parts))
                           ELSE st1.collectedSignature
                    st2 == [st1 EXCEPT !.collectedSignature = sig]
                IN  flushToolCalls(processParts(st2, Val(data.parts)), data)

\* Lines 296-384: one complete line.
processLine(st, line) ==
  IF ~ startsWithData(line) THEN st
  ELSE LET jsonStr == trim(SubSeq(line, 3, Len(line)))
       IN  IF jsonStr = <<>> THEN st
           ELSE IF JSONparse(jsonStr) = NULL THEN st
           ELSE processRecord(st, Val(JSONparse(jsonStr)))

\* A data line whose payload JSON.parse rejects.
failsToParse(line) ==
  /\ startsWithData(line)
  /\ trim(SubSeq(line, 3, Len(line))) # <<>>
  /\ JSONparse(trim(SubSeq(line, 3, Len(line)))) = NULL

\* Fault variant: a parse failure ends the processing of the lines.
RECURSIVE processLinesAborting(_, _)
processLinesAborting(st, lines) ==
  IF lines = <<>> THEN st
  ELSE IF failsToParse(Head(lines)) THEN st
  ELSE processLinesAborting(processLine(st, Head(lines)), Tail(lines))

RECURSIVE processLines(_, _)
processLines(st, lines) ==
  IF lines = <<>> THEN st
  ELSE processLines(processLine(st, Head(lines)), Tail(lines))

\* Lines 288-384: one iteration of the read loop on the decoded chunk.
readChunk(st, chunk) ==
  LET lines == split(st.buffer \o chunk)
      st1 == [st EXCEPT !.buffer = lines[Len(lines)], !.chunkCount = @ + 1]
  IN  processLines(st1, SubSeq(lines, 1, Len(lines) - 1))

\* The read loop is idle until a response body is being read.
IdleReader == [ pc |-> "idle" ]

\* The response bodies of the runs: up to MaxLines lines.
RECURSIVE Flatten(_)
Flatten(seqs) == IF seqs = <<>> THEN <<>> ELSE Head(seqs) \o Flatten(Tail(seqs))

Bodies == { Flatten(ls) : ls \in UNION { [1..k -> LineBytes] : k \in 0..MaxLines } }

\* The places where the transport cuts a body of n bytes into chunks.
CutLists(n) ==
  { c \in UNION { [1..k -> 0..n] : k \in 0..MaxCuts } :
      \A i \in 1..(Len(c) - 1) : c[i] <= c[i + 1] }

ChunksOf(body, cuts) ==
  [ i \in 1..(Len(cuts) + 1) |->
      SubSeq(body, (IF i = 1 THEN 0 ELSE cuts[i - 1]) + 1,
                   IF i = Len(cuts) + 1 THEN Len(body) ELSE cuts[i]) ]

\* The reader of a response body that arrives as the given chunks.
StartedReader(body, chunks) ==
  [ pc |-> "reading", body |-> body, chunks |-> chunks, pending |-> <<>>,
    loc |-> ReaderLocals ]

\* ------------------------------------------------ the HTTP routes: pure parts
\* The segments of the model names the requests carry.
segmentsOf(model) ==
  CASE model = "chat_1"          -> <<"chat_", "1">>
    [] model = "chat_1-thinking" -> <<"chat_", "1", "-thinking">>
    [] OTHER                     -> <<model>>

\* encoding.encode(text, 'all').length: the tokenizer is a library; a text is
\* counted by the number of its symbols.
countStringTokens(text, model) == Len(text)

\* An event generateResponse hands to the callback.
TextEvent(content) == [ type |-> "text", content |-> content, tool_calls |-> <<>> ]
ReasoningEvent(content) == [ type |-> "reasoning", content |-> content, tool_calls |-> <<>> ]
ImageEvent(image) == [ type |-> "image", content |-> <<image>>, tool_calls |-> <<>> ]
ToolCallsEvent(tool_calls) == [ type |-> "tool_calls", content |-> <<>>, tool_calls |-> tool_calls ]
ErrorEvent(content) == [ type |-> "error", content |-> content, tool_calls |-> <<>> ]

\* A thrown error: error.statusCode (NULL for a plain Error) and its message.
ApiError(message, statusCode) == [ statusCode |-> <<statusCode>>, message |-> message ]
PlainError(message) == [ statusCode |-> NULL, message |-> message ]

\* The response object: status 0 until the head is sent, the chunks written,
\* the calls of end() and the writes attempted after the first of them.
NoResponse ==
  [ status |-> 0, type |-> "none", written |-> <<>>, ended |-> 0, lateWrites |-> 0 ]

\* res.write(chunk) on the event stream.
write(res, chunk) ==
  IF res.ended > 0
  THEN [res EXCEPT !.lateWrites = @ + 1]
  ELSE [res EXCEPT !.status = IF @ = 0 THEN 200 ELSE @, !.type = "event-stream",
                   !.written = Append(@, chunk)]

\* res.end()
end(res) == [res EXCEPT !.status = IF @ = 0 THEN 200 ELSE @, !.ended = @ + 1]

\* res.status(statusCode).json(body)
json(res, statusCode, body) ==
  IF res.ended > 0 \/ res.written # <<>>
  THEN [res EXCEPT !.lateWrites = @ + 1]
  ELSE [res EXCEPT !.status = statusCode, !.type = "json",
                   !.written = <<body>>, !.ended = 1]

\* The chunks of the event stream and the JSON bodies.
DeltaChunk(field, content) == [ kind |-> "delta", field |-> field, content |-> content ]
ErrorDeltaChunk(message) == DeltaChunk("content", <<"LF", "LF", "error: ">> \o message)
FinishChunk(finish_reason, usage) ==
  [ kind |-> "finish", finish_reason |-> finish_reason, usage |-> usage ]
DoneMarker == [ kind |-> "[DONE]" ]
CompletionBody(content, usage) ==
  [ kind |-> "completion", content |-> content, usage |-> usage ]
ErrorBody(message) == [ kind |-> "error", message |-> message ]

\* usage: { prompt_tokens, completion_tokens, total_tokens }
usageOf(promptTokens, completionTokens) ==
  [ prompt_tokens |-> promptTokens, completion_tokens |-> completionTokens,
    total_tokens |-> promptTokens + completionTokens ]

\* The locals of the chat handler that the callback updates.
RouteLocals ==
  [ fullContent |-> <<>>, toolCallArgs |-> <<>>, reasoningContent |-> <<>>,
    collectedImages |-> <<>>, hasToolCall |-> FALSE, hasError |-> FALSE ]

\* tc.function?.name + (tc.function?.arguments || ''), joined.
RECURSIVE toolCallText(_)
toolCallText(tool_calls) ==
  IF tool_calls = <<>> THEN <<>>
  ELSE <<tool_calls[1].name>> \o tool_calls[1].arguments \o toolCallText(Tail(tool_calls))

\* `data:${img.mimeType};base64,${img.data}`
imageUrlOf(img) == <<"data:", img>>

\* The callback of the streaming path (routes.js 1060-1111).
streamCallback(st, data) ==
  CASE data.type = "error" ->
         [st EXCEPT !.loc.hasError = TRUE,
                    !.res = end(write(write(write(@, ErrorDeltaChunk(data.content)),
                                            FinishChunk("stop", NULL)), DoneMarker))]
    [] data.type = "tool_calls" ->
         [st EXCEPT !.loc.hasToolCall = TRUE,
                    !.loc.toolCallArgs = @ \o toolCallText(data.tool_calls),
                    !.res = write(@, DeltaChunk("tool_calls", toolCallText(data.tool_calls)))]
    [] data.type = "image" ->
         [st EXCEPT !.loc.collectedImages = @ \o data.content]
    [] data.type = "reasoning" ->
         [st EXCEPT !.loc.reasoningContent = @ \o data.content,
                    !.res = write(@, DeltaChunk("reasoning_content", data.content))]
    [] OTHER ->
         [st EXCEPT !.loc.fullContent = @ \o data.content,
                    !.res = write(@, DeltaChunk("content", data.content))]

\* The image markup the streaming path appends, one chunk per image.
RECURSIVE streamImages(_, _)
streamImages(st, images) ==
  IF images = <<>> THEN st
  ELSE LET imageContent == <<"LF", "![">> \o imageUrlOf(images[1]) \o <<")", "LF">>
       IN  streamImages(
             [st EXCEPT !.loc.fullContent = @ \o imageContent,
                        !.res = write(@, DeltaChunk("content", imageContent))],
             Tail(images))

\* Fault: the streaming path goes on after an error event.
streamEpilogueIgnoringError(st, promptTokens, model) ==
  LET withImages == streamImages(st, st.loc.collectedImages)
      completionTokens ==
        countStringTokens(withImages.loc.fullContent \o withImages.loc.toolCallArgs, model)
  IN  [withImages EXCEPT
         !.res = end(write(write(@, FinishChunk(
                                       IF withImages.loc.hasToolCall THEN "tool_calls" ELSE "stop",
                                       <<usageOf(promptTokens, completionTokens)>>)),
                           DoneMarker))]

\* The streaming path after generateResponse has returned (routes.js 1113-1155).
streamEpilogue(st, promptTokens, model) ==
  IF st.loc.hasError THEN st
  ELSE LET withImages == streamImages(st, st.loc.collectedImages)
           completionTokens ==
             countStringTokens(withImages.loc.fullContent \o withImages.loc.toolCallArgs, model)
       IN  [withImages EXCEPT
              !.res = end(write(write(@, FinishChunk(
                                            IF withImages.loc.hasToolCall THEN "tool_calls" ELSE "stop",
                                            <<usageOf(promptTokens, completionTokens)>>)),
                                DoneMarker))]

\* The catch block of the streaming path (routes.js 1156-1175).
streamCatch(st, error) ==
  [st EXCEPT !.res = end(write(write(write(@, ErrorDeltaChunk(error.message)),
                                     FinishChunk("stop", NULL)), DoneMarker))]

\* The callback of the non-streaming path (routes.js 1185-1196).
nonStreamCallback(st, data) ==
  CASE data.type = "tool_calls" ->
         [st EXCEPT !.loc.hasToolCall = TRUE,
                    !.loc.toolCallArgs = @ \o toolCallText(data.tool_calls)]
    [] data.type = "image" ->
         [st EXCEPT !.loc.collectedImages = @ \o data.content]
    [] data.type = "reasoning" ->
         [st EXCEPT !.loc.reasoningContent = @ \o data.content]
    [] OTHER ->
         [st EXCEPT !.loc.fullContent = @ \o data.content]

\* The image markup the non-streaming path appends.
RECURSIVE nonStreamImages(_)
nonStreamImages(images) ==
  IF images = <<>> THEN <<>>
  ELSE <<"![">> \o imageUrlOf(images[1]) \o <<")", "LF">> \o nonStreamImages(Tail(images))

\* The non-streaming path after generateResponse has returned
\* (routes.js 1198-1235).
nonStreamEpilogue(st, promptTokens, model) ==
  LET fullContent ==
        IF Len(st.loc.collectedImages) > 0
        THEN st.loc.fullContent \o <<"LF", "LF">> \o nonStreamImages(st.loc.collectedImages)
        ELSE st.loc.fullContent
      completionTokens == countStringTokens(fullContent \o st.loc.toolCallArgs, model)
  IN  [st EXCEPT !.loc.fullContent = fullContent,
                 !.res = json(@, 200, CompletionBody(fullContent,
                                        <<usageOf(promptTokens, completionTokens)>>))]

\* The catch block of the non-streaming path (routes.js 1236-1241).
nonStreamCatch(st, error) ==
  LET statusCode == IF error.statusCode # NULL THEN Val(error.statusCode) ELSE 500
  IN  [st EXCEPT !.res = json(@, statusCode, ErrorBody(error.message))]

\* The catch block of the image route (routes.js 1322-1332).
imageCatch(st, error) ==
  LET statusCode == IF error.statusCode # NULL THEN Val(error.statusCode) ELSE 500
  IN  [st EXCEPT !.res = json(@, statusCode, ErrorBody(error.message))]

\* A rejection that leaves the async handler: Express 4 drops it and the
\* request gets no response, Express 5 hands it to the default error handler,
\* which answers 500 with a body that is not JSON.
EscapeOutcomes ==
  { NoResponse,
    [ status |-> 500, type |-> "html", written |-> <<[ kind |-> "default error page" ]>>,
      ended |-> 1, lateWrites |-> 0 ] }

\* The request being served.
IdleRoute ==
  [ pc |-> "idle", kind |-> "chat", stream |-> FALSE, model |-> "gemini-2.5-pro",
    messages |-> <<>>, promptTokens |-> 0, account |-> NULL, selections |-> 0, calls |-> <<>>,
    upstream |-> <<>>, timer |-> "unset", stalled |-> FALSE, failure |-> "none",
    events |-> <<>>, loc |-> RouteLocals, res |-> NoResponse,
    cacheAge |-> <<>>, refresh |-> "none" ]

\* ---------------------------------- OAuthService: the pending handshakes
\* crypto.randomUUID(): the k-th token issued is k; 0 is a token that was
\* never issued.
StateTokens == 0..MaxHandshakes

\* The two handleCallback calls that run side by side.
Callbacks == { 1, 2 }

\* this.stateMap.get(state) and this.stateMap.delete(state); an entry is
\* { state, user_id, is_shared, timestamp }.
stateMapGet(stateMap, state) == { e \in stateMap : e.state = state }

stateMapDelete(stateMap, state) == { e \in stateMap : e.state # state }

\* Fault variant: the age of the entry is not tested.
getStateInfoNoExpiry(stateMap, state, t) ==
  IF stateMapGet(stateMap, state) = {}
  THEN [ info |-> <<>>, stateMap |-> stateMap ]
  ELSE [ info |-> << CHOOSE e \in stateMapGet(stateMap, state) : TRUE >>,
         stateMap |-> stateMap ]

\* getStateInfo(state) when Date.now() is t: the entry (or NULL) and the map
\* after the call.
getStateInfo(stateMap, state, t) ==
  IF stateMapGet(stateMap, state) = {}
  THEN [ info |-> <<>>, stateMap |-> stateMap ]
  ELSE LET info == CHOOSE e \in stateMapGet(stateMap, state) : TRUE
       IN  IF t - info.timestamp > StateTtlMs
           THEN [ info |-> <<>>, stateMap |-> stateMapDelete(stateMap, state) ]
           ELSE [ info |-> <<info>>, stateMap |-> stateMap ]

\* A handleCallback call that has not started: its position, its arguments
\* and locals (check is the outcome of the capability request, v_new_max the
\* local of update_user_shared_quota_max), whether it has inserted the
\* account row, and the error it has thrown.
IdleCallback ==
  [ pc |-> "idle", state |-> 0, user_id |-> "u1", is_shared |-> 0,
    cookie_id |-> "none", expires_at |-> 0, check |-> "none", created |-> FALSE,
    v_new_max |-> 0,
    error |-> "none" ]

\* The service after construction: an empty stateMap, no timer pending.
\* issuedAt[k] is the instant token k was issued and consumed the tokens
\* whose callback has returned an account.
IdleOAuth ==
  [ stateMap |-> {}, timers |-> {}, issuedAt |-> <<>>, consumed |-> {},
    calls |-> [ c \in Callbacks |-> IdleCallback ] ]

\* ------------------------------------------------------------------ Init
Init ==
  /\ accounts = {}
  /\ model_quotas = {}
  /\ user_shared_quota_pool = {}
  /\ now = 0
  /\ ops = 0
  /\ sel = IdleCall
  /\ probe = NULL
  /\ quota_consumption_log = {}
  /\ exch = IdleExchange
  /\ rs = IdleReader
  /\ route = IdleRoute
  /\ oauth = IdleOAuth

\* --------------------------------------------------------------- actions
\* OAuthService.handleCallback after the state check, the token exchange and
\* the capability check have succeeded.  A cookie_id already present makes
\* the INSERT fail and the handler throw before any write.
HandleCallback(auth, models, expires_in, fraction) ==
  /\ getAccountByCookieId(auth.cookie_id) = {}
  /\ accounts' = createAccount(accounts,
                   [ cookie_id  |-> auth.cookie_id,
                     user_id    |-> auth.user_id,
                     is_shared  |-> auth.is_shared,
                     expires_at |-> <<now + expires_in * 1000>> ])
  /\ model_quotas' = updateQuotasFromModels(model_quotas, auth.cookie_id, models, fraction)
  /\ user_shared_quota_pool' =
       IF auth.is_shared = 1
       THEN updateSharedQuotaMaxForModels(accounts', user_shared_quota_pool,
                                          auth.user_id, models)
       ELSE user_shared_quota_pool
  /\ UNCHANGED <<ledgerVars, rs, now, sel, probe>>

\* PUT /api/accounts/:cookie_id/status (also the effect of an upstream 403).
PutAccountStatus(cookie_id, status) ==
  /\ getAccountByCookieId(cookie_id) # {}
  /\ accounts' = updateAccountStatus(accounts, cookie_id, status)
  /\ accounts' # accounts
  /\ UNCHANGED <<ledgerVars, rs, model_quotas, user_shared_quota_pool, now, sel, probe>>

\* PUT /api/accounts/:cookie_id/quotas/:model_name/status
PutModelQuotaStatus(cookie_id, model_name, status) ==
  /\ getAccountByCookieId(cookie_id) # {}
  /\ model_quotas' = updateModelQuotaStatus(model_quotas, cookie_id, model_name, status)
  /\ model_quotas' # model_quotas
  /\ UNCHANGED <<ledgerVars, rs, accounts, user_shared_quota_pool, now, sel, probe>>

\* A completed shared exchange of user_id on model_name consumed delta.
ConsumeSharedQuota(user_id, model_name, delta) ==
  /\ user_shared_quota_pool' =
       consumeUserSharedQuota(user_shared_quota_pool, user_id, model_name, delta)
  /\ user_shared_quota_pool' # user_shared_quota_pool
  /\ UNCHANGED <<ledgerVars, rs, accounts, model_quotas, now, sel, probe>>

\* Time passes.
Tick ==
  /\ now < MaxTicks * SafetyMarginMs
  /\ now' = now + SafetyMarginMs
  /\ UNCHANGED <<ledgerVars, rs, accounts, model_quotas, user_shared_quota_pool, sel, probe>>

\* The upstream model listing a handler fetches after its token check: NULL
\* when the fetch fails, else <<data.models keys>>.
FetchOutcomes == { NULL } \cup { <<l>> : l \in ModelLists }

\* if (data.models) await quotaService.updateQuotasFromModels(cookie_id, data.models)
quotasAfterFetch(cookie_id, fetch, fraction) ==
  IF IsNull(fetch) THEN model_quotas
  ELSE updateQuotasFromModels(model_quotas, cookie_id, Val(fetch), fraction)

\* MultiAccountClient.getAvailableModels: const account = accounts[0].
modelsAccount(user_id) == getAvailableAccounts(<<user_id>>, NULL)[1]

\* getAvailableModels, token still valid: the listing refreshes the quota rows.
GetAvailableModelsFresh(user_id, models, fraction) ==
  /\ Len(getAvailableAccounts(<<user_id>>, NULL)) > 0
  /\ ~ isTokenExpired(modelsAccount(user_id), now)
  /\ model_quotas' = quotasAfterFetch(modelsAccount(user_id).cookie_id, <<models>>, fraction)
  /\ model_quotas' # model_quotas
  /\ UNCHANGED <<ledgerVars, rs, accounts, user_shared_quota_pool, now, sel, probe>>

\* getAvailableModels, token expired and refreshed.
GetAvailableModelsRefreshed(user_id, expires_in, fetch, fraction) ==
  /\ Len(getAvailableAccounts(<<user_id>>, NULL)) > 0
  /\ isTokenExpired(modelsAccount(user_id), now)
  /\ accounts' = updateAccountToken(accounts, modelsAccount(user_id).cookie_id,
                                    now + expires_in * 1000)
  /\ model_quotas' = quotasAfterFetch(modelsAccount(user_id).cookie_id, fetch, fraction)
  /\ UNCHANGED <<ledgerVars, rs, user_shared_quota_pool, now, sel, probe>>

\* getAvailableModels, lines 450-457: the refresh failed; only invalid_grant
\* touches the account before the error is rethrown.
GetAvailableModelsRefreshFails(user_id, isInvalidGrant) ==
  /\ Len(getAvailableAccounts(<<user_id>>, NULL)) > 0
  /\ isTokenExpired(modelsAccount(user_id), now)
  /\ accounts' = IF isInvalidGrant
                 THEN updateAccountStatus(accounts, modelsAccount(user_id).cookie_id, 0)
                 ELSE accounts
  /\ UNCHANGED <<ledgerVars, rs, model_quotas, user_shared_quota_pool, now, sel, probe>>

\* GET /api/accounts/:cookie_id/quotas: const account = getAccountByCookieId(..).
quotasAccount(cookie_id) == CHOOSE a \in accounts : a.cookie_id = cookie_id

\* The quota route, token still valid.
GetAccountQuotasFresh(cookie_id, models, fraction) ==
  /\ getAccountByCookieId(cookie_id) # {}
  /\ ~ isTokenExpired(quotasAccount(cookie_id), now)
  /\ model_quotas' = quotasAfterFetch(cookie_id, <<models>>, fraction)
  /\ model_quotas' # model_quotas
  /\ UNCHANGED <<ledgerVars, rs, accounts, user_shared_quota_pool, now, sel, probe>>

\* The quota route, token expired and refreshed.
GetAccountQuotasRefreshed(cookie_id, expires_in, fetch, fraction) ==
  /\ getAccountByCookieId(cookie_id) # {}
  /\ isTokenExpired(quotasAccount(cookie_id), now)
  /\ accounts' = updateAccountToken(accounts, cookie_id, now + expires_in * 1000)
  /\ model_quotas' = quotasAfterFetch(cookie_id, fetch, fraction)
  /\ UNCHANGED <<ledgerVars, rs, user_shared_quota_pool, now, sel, probe>>

\* The quota route, routes.js lines 605-612: the refresh failed; only
\* invalid_grant touches the account before the error is rethrown.
GetAccountQuotasRefreshFails(cookie_id, isInvalidGrant) ==
  /\ getAccountByCookieId(cookie_id) # {}
  /\ isTokenExpired(quotasAccount(cookie_id), now)
  /\ accounts' = IF isInvalidGrant
                 THEN updateAccountStatus(accounts, cookie_id, 0)
                 ELSE accounts
  /\ UNCHANGED <<ledgerVars, rs, model_quotas, user_shared_quota_pool, now, sel, probe>>

\* getAvailableAccount(user_id, model_name, user) is called.
CallGetAvailableAccount(user_id, model_name, user) ==
  /\ sel.pc \in {"idle", "done"}
  /\ sel' = [IdleCall EXCEPT !.pc = "query", !.user_id = user_id,
                             !.model_name = model_name, !.user = user]
  /\ UNCHANGED <<ledgerVars, rs, accounts, model_quotas, user_shared_quota_pool, now, ops, probe>>

\* Lines 44-69: query both pools, drop the excluded, fail when none is left.
QueryAccounts ==
  /\ sel.pc = "query"
  /\ LET cands == CandidateAccounts(sel.user_id, PreferShared(sel.user),
                                    sel.excludeCookieIds)
     IN  sel' = IF Len(cands) = 0
                THEN [sel EXCEPT !.pc = "done", !.result = "no_accounts",
                                 !.accounts = <<>>, !.account = NULL,
                                 !.excludeCookieIds = <<>>]
                ELSE [sel EXCEPT !.pc = "filter", !.accounts = cands]
  /\ UNCHANGED <<ledgerVars, rs, accounts, model_quotas, user_shared_quota_pool, now, ops, probe>>

\* Lines 71-101: nothing passes the filters.
FilterFails ==
  /\ sel.pc = "filter"
  /\ Len(AvailableAccounts(sel.accounts, sel.user_id, sel.model_name)) = 0
  /\ sel' = [sel EXCEPT !.pc = "done", !.result = "exhausted", !.account = NULL,
                        !.accounts = <<>>, !.excludeCookieIds = <<>>]
  /\ UNCHANGED <<ledgerVars, rs, accounts, model_quotas, user_shared_quota_pool, now, ops, probe>>

\* Lines 103-137, 162: choose at random in the selected pool; a token that is
\* not expired ends the call.
SelectAccount ==
  /\ sel.pc = "filter"
  /\ LET availableAccounts == AvailableAccounts(sel.accounts, sel.user_id, sel.model_name)
         selectedPool == SelectedPool(PreferShared(sel.user), availableAccounts)
     IN  /\ Len(availableAccounts) > 0
         /\ \E randomIndex \in 1..Len(selectedPool) :
              LET account == selectedPool[randomIndex]
              IN  sel' = IF isTokenExpired(account, now)
                         THEN [sel EXCEPT !.pc = "refresh", !.account = <<account>>]
                         ELSE [sel EXCEPT !.pc = "done", !.account = <<account>>,
                                          !.result = "ok", !.accounts = <<>>,
                                          !.excludeCookieIds = <<>>]
  /\ UNCHANGED <<ledgerVars, rs, accounts, model_quotas, user_shared_quota_pool, now, ops, probe>>

\* Lines 139-144: the refresh succeeded; the row and the object get the token.
RefreshSucceeds(expires_in) ==
  /\ sel.pc = "refresh"
  /\ LET account == Val(sel.account)
         expires_at == now + expires_in * 1000
     IN  /\ accounts' = updateAccountToken(accounts, account.cookie_id, expires_at)
         /\ sel' = [sel EXCEPT !.pc = "done", !.result = "ok",
                               !.account = <<[account EXCEPT !.expires_at = <<expires_at>>]>>,
                               !.accounts = <<>>, !.excludeCookieIds = <<>>]
  /\ UNCHANGED <<ledgerVars, rs, model_quotas, user_shared_quota_pool, now, ops, probe>>

\* Lines 145-159: the refresh failed; the account is put out of service and
\* the selection starts again without it.
RefreshFails(isInvalidGrant) ==
  /\ sel.pc = "refresh"
  /\ LET account == Val(sel.account)
     IN  /\ accounts' = onRefreshError(accounts, account.cookie_id, isInvalidGrant)
         /\ sel' = [sel EXCEPT !.pc = "query",
                               !.excludeCookieIds =
                                  newExcludeList(sel.excludeCookieIds, account.cookie_id),
                               !.accounts = <<>>, !.account = NULL]
  /\ UNCHANGED <<ledgerVars, rs, model_quotas, user_shared_quota_pool, now, ops, probe>>

\* A handler run other than a step of the selection call uses the budget.
Budget == ops < MaxOps /\ ops' = ops + 1

PoolBudget == ops < MaxPoolOps /\ ops' = ops + 1

\* The steps of the selection call once it has been made.
SelectionStep ==
  \/ QueryAccounts
  \/ FilterFails
  \/ SelectAccount
  \/ \E expires_in \in ExpiresIn : RefreshSucceeds(expires_in)
  \/ \E isInvalidGrant \in BOOLEAN : RefreshFails(isInvalidGrant)

Next ==
  \/ \E auth \in AuthInputs, models \in ModelLists,
        expires_in \in ExpiresIn, fraction \in QuotaFractions :
       Budget /\ HandleCallback(auth, models, expires_in, fraction)
  \/ \E c \in Cookies, status \in {0, 1} : Budget /\ PutAccountStatus(c, status)
  \/ \E c \in Cookies, m \in Models, status \in {0, 1} :
       Budget /\ PutModelQuotaStatus(c, m, status)
  \/ \E u \in Users, m \in Models, d \in Deltas :
       Budget /\ ConsumeSharedQuota(u, m, d)
  \/ \E u \in Users, models \in ModelLists, fraction \in QuotaFractions :
       Budget /\ GetAvailableModelsFresh(u, models, fraction)
  \/ \E u \in Users, expires_in \in ExpiresIn, fetch \in FetchOutcomes,
        fraction \in QuotaFractions :
       Budget /\ GetAvailableModelsRefreshed(u, expires_in, fetch, fraction)
  \/ \E u \in Users, isInvalidGrant \in BOOLEAN :
       Budget /\ GetAvailableModelsRefreshFails(u, isInvalidGrant)
  \/ \E c \in Cookies, models \in ModelLists, fraction \in QuotaFractions :
       Budget /\ GetAccountQuotasFresh(c, models, fraction)
  \/ \E c \in Cookies, expires_in \in ExpiresIn, fetch \in FetchOutcomes,
        fraction \in QuotaFractions :
       Budget /\ GetAccountQuotasRefreshed(c, expires_in, fetch, fraction)
  \/ \E c \in Cookies, isInvalidGrant \in BOOLEAN :
       Budget /\ GetAccountQuotasRefreshFails(c, isInvalidGrant)
  \/ Budget /\ Tick
  \/ \E u \in Users, m \in Models, user \in PreferValues :
       CallGetAvailableAccount(u, m, user)
  \/ SelectionStep

Spec == Init /\ [][Next]_vars

\* The selection call against the handlers that write the accounts table
\* and against the clock, which are what its retry loop depends on.
LiveNext ==
  \/ \E auth \in AuthInputs, models \in ModelLists,
        expires_in \in ExpiresIn, fraction \in QuotaFractions :
       Budget /\ HandleCallback(auth, models, expires_in, fraction)
  \/ \E c \in Cookies, status \in {0, 1} : Budget /\ PutAccountStatus(c, status)
  \/ \E u \in Users, isInvalidGrant \in BOOLEAN :
       Budget /\ GetAvailableModelsRefreshFails(u, isInvalidGrant)
  \/ Budget /\ Tick
  \/ \E u \in Users, m \in Models, user \in PreferValues :
       CallGetAvailableAccount(u, m, user)
  \/ SelectionStep

\* The event loop runs every continuation that is ready: a selection call
\* that has been made keeps taking its steps.
LiveSpec == Init /\ [][LiveNext]_vars /\ WF_vars(SelectionStep)

\* The shared-pool ledger alone: authorizations of shared accounts, status
\* changes and consumption, with no selection call in progress.
PoolNext ==
  \/ \E auth \in PoolAuthInputs, models \in ModelLists,
        expires_in \in ExpiresIn, fraction \in QuotaFractions :
       PoolBudget /\ HandleCallback(auth, models, expires_in, fraction)
  \/ \E c \in Cookies, status \in {0, 1} : PoolBudget /\ PutAccountStatus(c, status)
  \/ \E u \in Users, m \in Models, d \in Deltas :
       PoolBudget /\ ConsumeSharedQuota(u, m, d)

PoolSpec == Init /\ [][PoolNext]_vars

\* ------------------------------------------------ exchanges and the ledger
\* DELETE /api/accounts/:cookie_id
DeleteAccount(cookie_id) ==
  /\ getAccountByCookieId(cookie_id) # {}
  /\ accounts' = deleteAccount(accounts, cookie_id)
  /\ model_quotas' = deleteAccount(model_quotas, cookie_id)
  /\ quota_consumption_log' = deleteAccount(quota_consumption_log, cookie_id)
  /\ UNCHANGED <<user_shared_quota_pool, now, sel, probe, exch, rs, route, oauth>>

\* generateResponse lines 175-207: the account is given, quotaBefore is the
\* cached figure, or null when there is none or the read throws.
StartGenerateResponse(user_id, cookie_id, model_name, quotaReadOk) ==
  /\ exch.pc \in {"idle", "done"}
  /\ \E account \in getAccountByCookieId(cookie_id) :
       /\ account.status = 1
       /\ (account.is_shared = 1 \/ account.user_id = user_id)
       /\ exch' = [IdleExchange EXCEPT
                     !.pc = "upstream", !.kind = "chat", !.user_id = user_id,
                     !.cookie_id = cookie_id, !.is_shared = account.is_shared,
                     !.model_name = model_name,
                     !.quotaBefore = IF quotaReadOk
                                     THEN getQuota(model_quotas, cookie_id, model_name)
                                     ELSE NULL]
  /\ UNCHANGED <<accounts, model_quotas, user_shared_quota_pool, now, sel, probe,
                 quota_consumption_log, rs, route, oauth>>

\* Lines 226-265: the upstream call fails before the stream is read.
UpstreamFails ==
  /\ exch.pc = "upstream"
  /\ exch' = [exch EXCEPT !.pc = "done", !.result = "thrown"]
  /\ UNCHANGED <<accounts, model_quotas, user_shared_quota_pool, now, sel, probe,
                 quota_consumption_log, rs, route, oauth>>

\* Lines 267-385: the stream is read to its end and relayed to the callback.
StreamRead ==
  /\ exch.pc = "upstream" /\ exch.kind = "chat"
  /\ exch' = [exch EXCEPT !.pc = "bookkeeping", !.delivered = TRUE]
  /\ UNCHANGED <<accounts, model_quotas, user_shared_quota_pool, now, sel, probe,
                 quota_consumption_log, rs, route, oauth>>

\* Lines 387-426: store the signature, refresh the quota, record the
\* consumption; failing names the call that throws, fetch the outcome of the
\* upstream quota listing.
FinishBookkeeping(failing, fetch, fraction) ==
  /\ exch.pc = "bookkeeping"
  /\ LET accountFound == getAccountByCookieId(exch.cookie_id) # {}
         refreshed == IF failing = "lookup" \/ ~ accountFound \/ IsNull(fetch)
                      THEN model_quotas
                      ELSE updateQuotasFromModels(model_quotas, exch.cookie_id,
                                                  Val(fetch), fraction)
         quotaAfter == IF failing = "lookup" \/ ~ accountFound
                       THEN NULL
                       ELSE getQuota(refreshed, exch.cookie_id, exch.model_name)
         bothKnown == exch.quotaBefore # NULL /\ quotaAfter # NULL
         records == bothKnown /\ failing # "record"
     IN  /\ model_quotas' = refreshed
         /\ quota_consumption_log' =
              IF records
              THEN recordQuotaConsumption(quota_consumption_log, exch.user_id,
                     exch.cookie_id, exch.model_name, Val(exch.quotaBefore),
                     Val(quotaAfter), exch.is_shared)
              ELSE quota_consumption_log
         /\ user_shared_quota_pool' =
              IF records /\ exch.is_shared = 1
              THEN consumeUserSharedQuota(user_shared_quota_pool, exch.user_id,
                     exch.model_name,
                     consumedOf(Val(exch.quotaBefore), Val(quotaAfter)))
              ELSE user_shared_quota_pool
         /\ exch' = [exch EXCEPT
                       !.pc = "done",
                       !.quotaAfter = quotaAfter,
                       !.consumed = IF bothKnown
                                    THEN << consumedOf(Val(exch.quotaBefore), Val(quotaAfter)) >>
                                    ELSE NULL,
                       !.failed = IF failing = "record" /\ ~ bothKnown THEN "none" ELSE failing,
                       !.logged = records,
                       !.result = bookkeepingResult(failing)]
  /\ UNCHANGED <<accounts, now, sel, probe, rs, route, oauth>>

\* generateImage lines 592-603: the account is given.
StartGenerateImage(user_id, cookie_id, model_name) ==
  /\ exch.pc \in {"idle", "done"}
  /\ \E account \in getAccountByCookieId(cookie_id) :
       /\ account.status = 1
       /\ (account.is_shared = 1 \/ account.user_id = user_id)
       /\ exch' = [IdleExchange EXCEPT
                     !.pc = "upstream", !.kind = "image", !.user_id = user_id,
                     !.cookie_id = cookie_id, !.is_shared = account.is_shared,
                     !.model_name = model_name]
  /\ UNCHANGED <<accounts, model_quotas, user_shared_quota_pool, now, sel, probe,
                 quota_consumption_log, rs, route, oauth>>

\* generateImage lines 655-703: the response is parsed, the quota is
\* refreshed (refreshCookieQuota swallows its own errors), data is returned.
ImageCompletes(fetch, fraction) ==
  /\ exch.pc = "upstream" /\ exch.kind = "image"
  /\ model_quotas' =
       IF getAccountByCookieId(exch.cookie_id) = {} \/ IsNull(fetch)
       THEN model_quotas
       ELSE updateQuotasFromModels(model_quotas, exch.cookie_id, Val(fetch), fraction)
  /\ exch' = [exch EXCEPT !.pc = "done", !.delivered = TRUE, !.result = "returned"]
  /\ UNCHANGED <<accounts, user_shared_quota_pool, now, sel, probe,
                 quota_consumption_log, rs, route, oauth>>

LedgerBudget == ops < MaxLedgerOps /\ ops' = ops + 1

\* The steps of an exchange once it has started.
ExchangeStep ==
  \/ UpstreamFails /\ UNCHANGED ops
  \/ StreamRead /\ UNCHANGED ops
  \/ \E failing \in BookkeepingFailures, fetch \in FetchOutcomes,
        fraction \in RefreshFractions :
       FinishBookkeeping(failing, fetch, fraction) /\ UNCHANGED ops
  \/ \E fetch \in FetchOutcomes, fraction \in RefreshFractions :
       ImageCompletes(fetch, fraction) /\ UNCHANGED ops

LedgerNext ==
  \/ \E auth \in LedgerAuthInputs, models \in ModelLists,
        expires_in \in ExpiresIn, fraction \in QuotaFractions :
       LedgerBudget /\ HandleCallback(auth, models, expires_in, fraction)
  \/ \E c \in Cookies : LedgerBudget /\ DeleteAccount(c)
  \/ \E c \in Cookies, status \in {0, 1} : LedgerBudget /\ PutAccountStatus(c, status)
  \/ \E u \in Users, c \in Cookies, m \in Models, quotaReadOk \in BOOLEAN :
       LedgerBudget /\ StartGenerateResponse(u, c, m, quotaReadOk)
  \/ \E u \in Users, c \in Cookies, m \in Models :
       LedgerBudget /\ StartGenerateImage(u, c, m)
  \/ ExchangeStep

LedgerSpec == Init /\ [][LedgerNext]_vars

\* The ceiling scenario: one user authorizes up to four shared accounts and
\* draws on the pool in between.
\* ------------------------------------------------- the read loop's steps
\* reader.read() returns the next chunk: lines 282-384.
ReadChunk ==
  /\ rs.pc = "reading"
  /\ rs.chunks # <<>>
  /\ LET decoded == decode(rs.pending \o Head(rs.chunks))
     IN  rs' = [rs EXCEPT !.chunks = Tail(@),
                          !.pending = decoded.pending,
                          !.loc = readChunk(@, decoded.text)]
  /\ UNCHANGED <<accounts, model_quotas, user_shared_quota_pool, now, ops,
                 sel, probe, ledgerVars>>

\* Fault variant: the rest of the buffer is processed as a last line.
EndOfStreamFlushing ==
  /\ rs.pc = "reading"
  /\ rs.chunks = <<>>
  /\ rs' = [rs EXCEPT !.pc = "done", !.loc = processLine(@, rs.loc.buffer)]
  /\ UNCHANGED <<accounts, model_quotas, user_shared_quota_pool, now, ops,
                 sel, probe, ledgerVars>>

\* reader.read() returns done: lines 283-285.
EndOfStream ==
  /\ rs.pc = "reading"
  /\ rs.chunks = <<>>
  /\ rs' = [rs EXCEPT !.pc = "done"]
  /\ UNCHANGED <<accounts, model_quotas, user_shared_quota_pool, now, ops,
                 sel, probe, ledgerVars>>

StreamInit ==
  /\ accounts = {}
  /\ model_quotas = {}
  /\ user_shared_quota_pool = {}
  /\ now = 0
  /\ ops = 0
  /\ sel = IdleCall
  /\ probe = NULL
  /\ quota_consumption_log = {}
  /\ exch = IdleExchange
  /\ \E body \in Bodies : \E cuts \in CutLists(Len(body)) :
       rs = StartedReader(body, ChunksOf(body, cuts))
  /\ route = IdleRoute
  /\ oauth = IdleOAuth

StreamNext ==
  \/ ReadChunk
  \/ EndOfStream

StreamSpec == StreamInit /\ [][StreamNext]_vars

CeilingBudget == ops < MaxCeilingOps /\ ops' = ops + 1

CeilingNext ==
  \/ \E auth \in CeilingAuthInputs, models \in ModelLists,
        expires_in \in ExpiresIn, fraction \in QuotaFractions :
       CeilingBudget /\ HandleCallback(auth, models, expires_in, fraction)
  \/ \E m \in Models, d \in Deltas :
       CeilingBudget /\ ConsumeSharedQuota("u1", m, d)

CeilingSpec == Init /\ [][CeilingNext]_vars

\* isTokenExpired applied to accounts and instants around the safety margin.
ProbeTimes ==
  { t \in { k * SafetyMarginMs + d : k \in 0..MaxProbeMargins, d \in {-1, 0, 1} } :
      t >= 0 }

ProbeExpiries == { NULL } \cup { <<e>> : e \in ProbeTimes }

IsTokenExpiredCall(expires_at, t) ==
  /\ probe' = << [ expires_at |-> expires_at, now |-> t,
                   expired |-> isTokenExpired([expires_at |-> expires_at], t) ] >>
  /\ UNCHANGED <<ledgerVars, rs, accounts, model_quotas, user_shared_quota_pool, now, ops, sel>>

ExpiryNext ==
  \E expires_at \in ProbeExpiries, t \in ProbeTimes : IsTokenExpiredCall(expires_at, t)

ExpirySpec == Init /\ [][ExpiryNext]_vars

\* ------------------------------------------------- normalizeJsonSchema
\* JSON values: a primitive, null, an array, or an object (a function from
\* its keys to values).  TypeError is the outcome of a call that throws.
Prim(p) == [ t |-> "prim", p |-> p ]
JNull == [ t |-> "null" ]
Arr(a) == [ t |-> "arr", a |-> a ]
Obj(o) == [ t |-> "obj", o |-> o ]
TypeError == [ t |-> "TypeError" ]

UNSUPPORTED_SCHEMA_KEYS ==
  { "$schema", "$id", "$defs", "definitions",
    "allOf", "anyOf", "oneOf", "not", "if", "then", "else",
    "pattern", "patternProperties", "propertyNames",
    "minLength", "maxLength",
    "minItems", "maxItems", "uniqueItems", "contains",
    "minimum", "maximum", "exclusiveMinimum", "exclusiveMaximum", "multipleOf",
    "dependentSchemas", "dependentRequired",
    "additionalItems", "unevaluatedItems", "unevaluatedProperties" }

\* An object without the given keys, and with one key set.
WithoutKeys(o, keys) == [ k \in (DOMAIN o) \ keys |-> o[k] ]
WithKey(o, key, value) ==
  [ k \in (DOMAIN o) \cup {key} |-> IF k = key THEN value ELSE o[k] ]

Throws(values) == \E k \in DOMAIN values : values[k] = TypeError

RECURSIVE normalizeJsonSchema(_)

\* Fault variant: the deletion loop stops after the first unsupported key.
normalizeJsonSchemaFirstKeyOnly(schema) ==
  IF schema.t \in { "prim", "null" } THEN schema
  ELSE IF schema.t = "arr"
  THEN Arr([ i \in DOMAIN schema.a |-> normalizeJsonSchema(schema.a[i]) ])
  ELSE LET found == (DOMAIN schema.o) \cap UNSUPPORTED_SCHEMA_KEYS
       IN  IF found = {} THEN schema
           ELSE Obj(WithoutKeys(schema.o, { CHOOSE k \in found : TRUE }))

\* Fault variant: the unsupported keys of the object itself are deleted, and
\* nothing below it is visited.
normalizeJsonSchemaShallow(schema) ==
  IF schema.t \in { "prim", "null" } THEN schema
  ELSE IF schema.t = "arr"
  THEN Arr([ i \in DOMAIN schema.a |-> normalizeJsonSchema(schema.a[i]) ])
  ELSE Obj(WithoutKeys(schema.o, UNSUPPORTED_SCHEMA_KEYS))

\* utils.js normalizeJsonSchema (multi_account_client.js holds the same
\* function).  Object.entries(null) throws, and an exception of a nested
\* call leaves the calling one.
normalizeJsonSchema(schema) ==
  IF schema.t \in { "prim", "null" } THEN schema
  ELSE IF schema.t = "arr"
  THEN LET items == [ i \in DOMAIN schema.a |-> normalizeJsonSchema(schema.a[i]) ]
       IN  IF Throws(items) THEN TypeError ELSE Arr(items)
  ELSE LET n0 == WithoutKeys(schema.o, UNSUPPORTED_SCHEMA_KEYS)
           props == IF "properties" \in DOMAIN n0 THEN n0["properties"] ELSE JNull
           processed == [ k \in DOMAIN props.o |-> normalizeJsonSchema(props.o[k]) ]
       IN  IF "properties" \in DOMAIN n0 /\ props.t = "null" THEN TypeError
           ELSE IF "properties" \in DOMAIN n0 /\ props.t = "obj" /\ Throws(processed)
           THEN TypeError
           ELSE
           LET n1 == IF "properties" \in DOMAIN n0 /\ props.t = "obj"
                     THEN WithKey(n0, "properties", Obj(processed))
                     ELSE n0
               items == IF "items" \in DOMAIN n1
                        THEN normalizeJsonSchema(n1["items"]) ELSE JNull
               n2 == IF "items" \in DOMAIN n1 THEN WithKey(n1, "items", items) ELSE n1
               recurse == /\ "additionalProperties" \in DOMAIN n2
                          /\ n2["additionalProperties"].t \in { "obj", "arr", "null" }
               additional == IF recurse
                             THEN normalizeJsonSchema(n2["additionalProperties"])
                             ELSE JNull
           IN  IF items = TypeError \/ additional = TypeError THEN TypeError
               ELSE IF recurse THEN Obj(WithKey(n2, "additionalProperties", additional))
               ELSE Obj(n2)

\* The schemas of the runs are built from a leaf by adding keys to an
\* object and by nesting the schema in another one.
SchemaLeaves == { Prim("x"), JNull, Arr(<<>>) }
SchemaKeys ==
  { "type", "default", "minLength", "pattern", "properties", "items",
    "additionalProperties" }
PropertyNames == { "a", "minLength" }

SchemaBudget == ops < MaxSchemaOps /\ ops' = ops + 1

SetSchema(schema) ==
  /\ probe' = << [ schema |-> schema, normalized |-> NULL ] >>
  /\ UNCHANGED <<ledgerVars, rs, accounts, model_quotas, user_shared_quota_pool, now, sel>>

AddKey(key, value) ==
  /\ Val(probe).schema.t = "obj"
  /\ key \notin DOMAIN Val(probe).schema.o
  /\ SetSchema(Obj(WithKey(Val(probe).schema.o, key, value)))

WrapInProperty(name) ==
  SetSchema(Obj([ k \in {"properties"} |->
                    Obj([ n \in {name} |-> Val(probe).schema ]) ]))

WrapInKey(key) == SetSchema(Obj([ k \in {key} |-> Val(probe).schema ]))

WrapInArray == SetSchema(Arr(<< Val(probe).schema, Prim("x") >>))

\* The call normalizeJsonSchema(schema).
NormalizeSchema ==
  /\ Val(probe).normalized = NULL
  /\ probe' = << [ Val(probe) EXCEPT !.normalized = << normalizeJsonSchema(Val(probe).schema) >> ] >>
  /\ UNCHANGED <<ledgerVars, rs, accounts, model_quotas, user_shared_quota_pool, now, ops, sel>>

SchemaInit ==
  /\ accounts = {}
  /\ model_quotas = {}
  /\ user_shared_quota_pool = {}
  /\ now = 0
  /\ ops = 0
  /\ sel = IdleCall
  /\ probe = << [ schema |-> Obj([ k \in {} |-> JNull ]), normalized |-> NULL ] >>
  /\ quota_consumption_log = {}
  /\ exch = IdleExchange
  /\ rs = IdleReader
  /\ route = IdleRoute
  /\ oauth = IdleOAuth

SchemaNext ==
  \/ \E key \in SchemaKeys, value \in SchemaLeaves : SchemaBudget /\ AddKey(key, value)
  \/ \E name \in PropertyNames : SchemaBudget /\ WrapInProperty(name)
  \/ \E key \in { "items", "additionalProperties", "default" } :
       SchemaBudget /\ WrapInKey(key)
  \/ SchemaBudget /\ WrapInArray
  \/ NormalizeSchema

SchemaSpec == SchemaInit /\ [][SchemaNext]_vars

\* ------------------------------------- OpenAI messages to upstream turns
\* A text is the sequence of its characters: "w" a visible character, "SP" a
\* space, "<think>" and "</think>" the tags, "IMG" the markdown of an inline
\* image.  A message content is NULL (absent), a string, or an array of
\* text and image_url items.
StringContent(text) == << [ form |-> "string", text |-> text ] >>
ArrayContent(items) == << [ form |-> "array", items |-> items ] >>
TextItem(text) == [ type |-> "text", text |-> text, dataUrl |-> FALSE ]
ImageItem(dataUrl) == [ type |-> "image_url", text |-> <<>>, dataUrl |-> dataUrl ]

\* A part of an upstream turn; a field that is absent is NULL.
TurnPart(text, thought, thoughtSignature, functionCall, functionResponse, inlineData) ==
  [ text |-> text, thought |-> thought, thoughtSignature |-> thoughtSignature,
    functionCall |-> functionCall, functionResponse |-> functionResponse,
    inlineData |-> inlineData ]

TextPart(text) == TurnPart(<<text>>, NULL, NULL, NULL, NULL, NULL)
TaggedTextPart(text, thought) == TurnPart(<<text>>, <<thought>>, NULL, NULL, NULL, NULL)
ThinkPart(text) == TurnPart(<<text>>, <<TRUE>>, <<"">>, NULL, NULL, NULL)
ImagePart == TurnPart(NULL, NULL, NULL, NULL, NULL, <<"image">>)
FunctionCallPart(call) == TurnPart(NULL, NULL, NULL, <<call>>, NULL, NULL)
FunctionResponsePart(id, name) ==
  TurnPart(NULL, NULL, NULL, NULL, << [ id |-> id, name |-> name ] >>, NULL)

Turn(role, parts) == [ role |-> role, parts |-> parts ]

\* The text items of an array content, joined.
RECURSIVE joinTextItems(_)
joinTextItems(items) ==
  IF items = <<>> THEN <<>>
  ELSE (IF Head(items).type = "text" THEN Head(items).text ELSE <<>>)
       \o joinTextItems(Tail(items))

\* The images of an array content whose url is a base64 data url.
RECURSIVE matchedImages(_)
matchedImages(items) ==
  IF items = <<>> THEN <<>>
  ELSE (IF Head(items).type = "image_url" /\ Head(items).dataUrl
        THEN <<ImagePart>> ELSE <<>>)
       \o matchedImages(Tail(items))

extractImagesFromContent(content) ==
  IF content = NULL THEN [ text |-> <<>>, images |-> <<>> ]
  ELSE IF Val(content).form = "string"
  THEN [ text |-> Val(content).text, images |-> <<>> ]
  ELSE [ text |-> joinTextItems(Val(content).items),
         images |-> matchedImages(Val(content).items) ]

\* Fault variant: a message without text and images yields a turn without
\* parts.
handleUserMessageNoFallback(extracted, antigravityMessages, enableThinking) ==
  Append(antigravityMessages,
         Turn("user", (IF extracted.text # <<>>
                       THEN << TextPart(extracted.text) >> ELSE <<>>)
                      \o extracted.images))

handleUserMessage(extracted, antigravityMessages, enableThinking) ==
  LET textParts ==
        IF extracted.text # <<>>
        THEN IF enableThinking /\ Len(extracted.images) > 0
             THEN << TaggedTextPart(extracted.text, FALSE) >>
             ELSE << TextPart(extracted.text) >>
        ELSE <<>>
      parts == textParts \o extracted.images
  IN  Append(antigravityMessages,
             Turn("user", IF parts = <<>> THEN << TextPart(<<>>) >> ELSE parts))

\* The first index from i on at which token occurs in text, or 0.
IndexFrom(text, token, i) ==
  IF \E k \in i..Len(text) : text[k] = token
  THEN CHOOSE k \in i..Len(text) :
         text[k] = token /\ \A j \in i..(k - 1) : text[j] # token
  ELSE 0

\* textContent.match(/<think>([\s\S]*?)<\/think>/g): the matched spans,
\* each as the pair of its first and last index.
RECURSIVE thinkSpans(_, _)
thinkSpans(text, from) ==
  LET open == IndexFrom(text, "<think>", from)
      close == IF open = 0 THEN 0 ELSE IndexFrom(text, "</think>", open + 1)
  IN  IF close = 0 THEN <<>>
      ELSE << <<open, close>> >> \o thinkSpans(text, close + 1)

\* match.replace(/<\/?think>/g, '')
withoutTags(text) == SelectSeq(text, LAMBDA c : c \notin { "<think>", "</think>" })

\* textContent.replace(/<think>[\s\S]*?<\/think>/g, '')
withoutThinkSpans(text) ==
  LET spans == thinkSpans(text, 1)
      kept == { k \in 1..Len(text) :
                  \A n \in DOMAIN spans : k < spans[n][1] \/ k > spans[n][2] }
      RECURSIVE pick(_)
      pick(k) == IF k > Len(text) THEN <<>>
                 ELSE (IF k \in kept THEN <<text[k]>> ELSE <<>>) \o pick(k + 1)
  IN  pick(1)

\* The replace calls that remove the markdown of images.
withoutImageMarkup(text) == SelectSeq(text, LAMBDA c : c # "IMG")

RECURSIVE thinkParts(_, _)
thinkParts(text, spans) ==
  IF spans = <<>> THEN <<>>
  ELSE LET thinkContent ==
             trim(withoutTags(SubSeq(text, Head(spans)[1], Head(spans)[2])))
       IN  (IF thinkContent # <<>> THEN << ThinkPart(thinkContent) >> ELSE <<>>)
           \o thinkParts(text, Tail(spans))

RECURSIVE functionCallParts(_)
functionCallParts(tool_calls) ==
  IF tool_calls = <<>> THEN <<>>
  ELSE << FunctionCallPart(Head(tool_calls)) >> \o functionCallParts(Tail(tool_calls))

\* The text parts of an assistant message that has content.
assistantTextParts(message, isImageModel, enableThinking) ==
  LET textContent0 == IF Val(message.content).form = "string"
                      THEN Val(message.content).text
                      ELSE joinTextItems(Val(message.content).items)
  IN  IF isImageModel
      THEN LET textContent == trim(withoutImageMarkup(textContent0))
           IN  IF textContent # <<>>
               THEN << TaggedTextPart(textContent, TRUE) >> ELSE <<>>
      ELSE LET spans == thinkSpans(textContent0, 1)
               hasThinkingContent == spans # <<>>
               parts == thinkParts(textContent0, spans)
               textContent == trim(withoutThinkSpans(textContent0))
           IN  IF textContent # <<>>
               THEN parts \o << IF enableThinking
                                THEN TaggedTextPart(textContent, FALSE)
                                ELSE TextPart(textContent) >>
               ELSE IF enableThinking /\ ~ hasThinkingContent /\ parts = <<>>
               THEN << TaggedTextPart(<<>>, FALSE) >>
               ELSE parts

handleAssistantMessage(message, antigravityMessages, isImageModel, enableThinking) ==
  LET n == Len(antigravityMessages)
      hasToolCalls == message.tool_calls # <<>>
      hasContent == /\ message.content # NULL
                    /\ IF Val(message.content).form = "string"
                       THEN trim(Val(message.content).text) # <<>>
                       ELSE TRUE
      antigravityTools == functionCallParts(message.tool_calls)
  IN  IF n > 0 /\ antigravityMessages[n].role = "model" /\ hasToolCalls /\ ~ hasContent
      THEN [antigravityMessages EXCEPT ![n].parts = @ \o antigravityTools]
      ELSE LET parts == (IF hasContent
                         THEN assistantTextParts(message, isImageModel, enableThinking)
                         ELSE <<>>) \o antigravityTools
           IN  Append(antigravityMessages,
                      Turn("model", IF parts = <<>> THEN << TextPart(<<>>) >> ELSE parts))

\* The name of the function call with the given id in the latest model turn
\* that holds one, or "" when there is none.
RECURSIVE functionNameOf(_, _, _)
functionNameOf(antigravityMessages, i, tool_call_id) ==
  IF i = 0 THEN ""
  ELSE LET parts == antigravityMessages[i].parts
           hits == { k \in DOMAIN parts :
                       /\ parts[k].functionCall # NULL
                       /\ Val(parts[k].functionCall).id = tool_call_id }
           first == CHOOSE k \in hits : \A j \in hits : k <= j
       IN  IF /\ antigravityMessages[i].role = "model"
              /\ hits # {}
              /\ Val(parts[first].functionCall).name # ""
           THEN Val(parts[first].functionCall).name
           ELSE functionNameOf(antigravityMessages, i - 1, tool_call_id)

\* Fault variant: every tool message opens a turn of its own.
handleToolCallNoMerge(message, antigravityMessages) ==
  Append(antigravityMessages,
         Turn("user", << FunctionResponsePart(message.tool_call_id,
                           functionNameOf(antigravityMessages, Len(antigravityMessages),
                                          message.tool_call_id)) >>))

handleToolCall(message, antigravityMessages) ==
  LET n == Len(antigravityMessages)
      functionName == functionNameOf(antigravityMessages, n, message.tool_call_id)
      functionResponse == FunctionResponsePart(message.tool_call_id, functionName)
  IN  IF /\ n > 0
         /\ antigravityMessages[n].role = "user"
         /\ \E k \in DOMAIN antigravityMessages[n].parts :
              antigravityMessages[n].parts[k].functionResponse # NULL
      THEN [antigravityMessages EXCEPT ![n].parts = Append(@, functionResponse)]
      ELSE Append(antigravityMessages, Turn("user", <<functionResponse>>))

RECURSIVE convertMessages(_, _, _, _)
convertMessages(openaiMessages, antigravityMessages, isImageModel, enableThinking) ==
  IF openaiMessages = <<>> THEN antigravityMessages
  ELSE LET message == Head(openaiMessages)
           next ==
             IF message.role \in { "user", "system" }
             THEN handleUserMessage(extractImagesFromContent(message.content),
                                    antigravityMessages, enableThinking)
             ELSE IF message.role = "assistant"
             THEN handleAssistantMessage(message, antigravityMessages,
                                         isImageModel, enableThinking)
             ELSE IF message.role = "tool"
             THEN handleToolCall(message, antigravityMessages)
             ELSE antigravityMessages
       IN  convertMessages(Tail(openaiMessages), next, isImageModel, enableThinking)

\* A model name is the sequence of its segments.
endsWith(modelName, suffix) == modelName[Len(modelName)] = suffix
startsWith(modelName, prefix) == modelName[1] = prefix

openaiMessageToAntigravity(openaiMessages, enableThinking, modelName) ==
  convertMessages(openaiMessages, <<>>, endsWith(modelName, "-image"), enableThinking)

\* The index of the last model turn, or 0.
lastModelIndex(contents) ==
  IF \E i \in DOMAIN contents : contents[i].role = "model"
  THEN CHOOSE i \in DOMAIN contents :
         contents[i].role = "model" /\ \A j \in DOMAIN contents : j > i => contents[j].role # "model"
  ELSE 0

\* Lines 1367-1380: the text parts of the turn become thoughts.
markThought(part) ==
  IF part.text # NULL /\ part.functionCall = NULL
  THEN [part EXCEPT !.thought = <<TRUE>>,
                    !.thoughtSignature = IF @ = NULL THEN <<"">> ELSE @]
  ELSE part

\* Lines 1383-1399: one stored signature is put on its part.  The index of a
\* text signature counts the parts from 1 here.
RECURSIVE applySignatures(_, _)
applySignatures(parts, signatures) ==
  IF signatures = <<>> THEN parts
  ELSE LET sig == Head(signatures)
           calls == { k \in DOMAIN parts :
                        /\ parts[k].functionCall # NULL
                        /\ Val(parts[k].functionCall).id = sig.functionId }
           target == IF sig.type = "functionCall" /\ sig.functionId # ""
                     THEN IF calls = {} THEN 0
                          ELSE CHOOSE k \in calls : \A j \in calls : k <= j
                     ELSE IF sig.type = "text" /\ sig.index \in DOMAIN parts
                     THEN sig.index
                     ELSE 0
           parts1 == IF target # 0 /\ parts[target].thoughtSignature # NULL
                     THEN [parts EXCEPT ![target].thoughtSignature = <<sig.signature>>]
                     ELSE parts
       IN  applySignatures(parts1, Tail(signatures))

injectSignatures(contents, signatures, enableThinking) ==
  IF signatures = NULL \/ Val(signatures) = <<>> THEN contents
  ELSE IF lastModelIndex(contents) = 0 THEN contents
  ELSE LET i == lastModelIndex(contents)
           parts == IF enableThinking
                    THEN [ k \in DOMAIN contents[i].parts |-> markThought(contents[i].parts[k]) ]
                    ELSE contents[i].parts
       IN  [contents EXCEPT ![i].parts = applySignatures(parts, Val(signatures))]

\* generateRequestBody, lines 1402-1447: the thinking switch, the rejection
\* of completion models, the signature lookup and the contents.
\* storedSignatures is what retrieveSignatures returns (NULL when it returns
\* null or throws).
thinkingEnabled(modelName) ==
  \/ endsWith(modelName, "-thinking")
  \/ modelName = <<"gemini-2.5-pro">>
  \/ startsWith(modelName, "gemini-3-pro-")
  \/ modelName = <<"rev19-uic3-1p">>
  \/ modelName = <<"gpt-oss-120b-medium">>

baseModelNameOf(modelName) ==
  LET actualModelName == IF modelName = <<"gemini-2.5-flash", "-thinking">>
                         THEN <<"gemini-2.5-flash">> ELSE modelName
  IN  IF endsWith(actualModelName, "-thinking")
      THEN SubSeq(actualModelName, 1, Len(actualModelName) - 1)
      ELSE actualModelName

generateRequestBody(openaiMessages, modelName, user_id, storedSignatures) ==
  LET enableThinking == thinkingEnabled(modelName)
      baseModelName == baseModelNameOf(modelName)
  IN  IF startsWith(baseModelName, "chat_")
      THEN [ threw |-> TRUE, lookedUp |-> FALSE, contents |-> <<>> ]
      ELSE LET lookedUp == enableThinking /\ user_id # NULL
               signatures == IF lookedUp THEN storedSignatures ELSE NULL
               contents == openaiMessageToAntigravity(openaiMessages, enableThinking,
                                                      baseModelName)
           IN  [ threw |-> FALSE, lookedUp |-> lookedUp,
                 contents |->
                   IF signatures # NULL /\ Val(signatures) # <<>>
                   THEN injectSignatures(contents, signatures, enableThinking)
                   ELSE IF enableThinking
                   THEN injectSignatures(contents, << <<>> >>, enableThinking)
                   ELSE contents ]

\* The messages, model names and stored signatures of the runs.
ToolCalls == << [ id |-> "c1", name |-> "f1" ], [ id |-> "c2", name |-> "f2" ] >>

UserMessages ==
  { [ role |-> "user", content |-> c, tool_calls |-> <<>>, tool_call_id |-> "" ] :
      c \in { StringContent(<<"w">>), StringContent(<<>>),
              ArrayContent(<< TextItem(<<"w">>), ImageItem(TRUE) >>),
              ArrayContent(<< ImageItem(FALSE) >>) } }

AssistantMessages ==
  { [ role |-> "assistant", content |-> c, tool_calls |-> <<>>, tool_call_id |-> "" ] :
      c \in { NULL, StringContent(<<"SP">>), StringContent(<<"w">>),
              StringContent(<<"<think>", "w", "</think>", "w">>),
              StringContent(<<"<think>", "</think>">>),
              StringContent(<<"IMG">>) } }
  \cup
  { [ role |-> "assistant", content |-> c, tool_calls |-> ToolCalls, tool_call_id |-> "" ] :
      c \in { NULL, StringContent(<<"w">>) } }

ToolMessages ==
  { [ role |-> "tool", content |-> StringContent(<<"w">>), tool_calls |-> <<>>,
      tool_call_id |-> id ] : id \in { "c1", "c9" } }

OpenAIMessages == UserMessages \cup AssistantMessages \cup ToolMessages

ModelNames ==
  { <<"gemini-2.5-flash">>, <<"gemini-2.5-pro">>, <<"gemini-3-pro-", "x", "-image">>,
    <<"gemini-2.5-flash", "-image">>, <<"chat_", "x">>, <<"chat_", "x", "-thinking">> }

StoredSignatures ==
  { NULL,
    << << [ type |-> "text", index |-> 1, functionId |-> "", signature |-> "sigA" ] >> >>,
    << << [ type |-> "functionCall", index |-> 1, functionId |-> "c1",
            signature |-> "sigB" ] >> >> }

\* A message is added to the request that is being received.
AppendMessage(message) ==
  /\ Val(probe).request = NULL
  /\ Len(Val(probe).messages) < MaxMessages
  /\ probe' = << [ Val(probe) EXCEPT !.messages = Append(@, message) ] >>
  /\ UNCHANGED <<ledgerVars, rs, accounts, model_quotas, user_shared_quota_pool, now, ops, sel>>

\* The call generateRequestBody(messages, model, params, tools, user_id, account).
GenerateRequestBody(modelName, storedSignatures) ==
  /\ Val(probe).request = NULL
  /\ probe' = << [ Val(probe) EXCEPT
                     !.modelName = modelName,
                     !.storedSignatures = storedSignatures,
                     !.request = << generateRequestBody(Val(probe).messages, modelName,
                                                        <<"u1">>, storedSignatures) >> ] >>
  /\ UNCHANGED <<ledgerVars, rs, accounts, model_quotas, user_shared_quota_pool, now, ops, sel>>

ConvertInit ==
  /\ accounts = {}
  /\ model_quotas = {}
  /\ user_shared_quota_pool = {}
  /\ now = 0
  /\ ops = 0
  /\ sel = IdleCall
  /\ probe = << [ messages |-> <<>>, modelName |-> <<>>, storedSignatures |-> NULL,
                  request |-> NULL ] >>
  /\ quota_consumption_log = {}
  /\ exch = IdleExchange
  /\ rs = IdleReader
  /\ route = IdleRoute
  /\ oauth = IdleOAuth

ConvertNext ==
  \/ \E message \in OpenAIMessages : AppendMessage(message)
  \/ \E modelName \in ModelNames, storedSignatures \in StoredSignatures :
       GenerateRequestBody(modelName, storedSignatures)

ConvertSpec == ConvertInit /\ [][ConvertNext]_vars

\* ------------------------------------------------ the HTTP routes: handlers
\* The requests considered: their model names, bodies and callers, the model
\* lists the accounts were authorized with, and what the upstream answers.
\* Date.now() - last_fetched_at of the cached quota row: exactly the TTL and
\* one millisecond more; NULL when there is no row.
CacheAges == { NULL, <<CACHE_TTL>>, <<CACHE_TTL + 1>> }

FreshCacheAges == { NULL, <<CACHE_TTL>> }

\* The fraction the background refresh reads for the models.
BackgroundFractions == { 2500 }

RequestModels == { "gemini-2.5-pro", "chat_1", "chat_1-thinking" }
RouteModelLists == { { "gemini-2.5-pro", "chat_1" } }
RequestMessages ==
  { NULL,
    << << [ role |-> "user", content |-> ArrayContent(<< TextItem(<<"w">>), ImageItem(TRUE) >>),
            tool_calls |-> <<>>, tool_call_id |-> "" ],
          [ role |-> "assistant", content |-> NULL, tool_calls |-> <<>>,
            tool_call_id |-> "" ] >> >> }
UpstreamStatuses == { 200, 400, 403, 429, 500 }
UpstreamEvents ==
  { TextEvent(<<"w">>), ReasoningEvent(<<"r">>), ImageEvent("img"),
    ToolCallsEvent(<< [ name |-> "f1", arguments |-> <<"{}">> ] >>) }

\* messages.map(m => text of m.content).join('\n')  (routes.js 1033-1039)
RECURSIVE inputTextOf(_)
inputTextOf(messages) ==
  IF messages = <<>> THEN <<>>
  ELSE LET content == Head(messages).content
           text == IF content = NULL THEN <<>>
                   ELSE IF Val(content).form = "string" THEN Val(content).text
                   ELSE joinTextItems(Val(content).items)
       IN  IF Len(messages) = 1 THEN text
           ELSE text \o <<"LF">> \o inputTextOf(Tail(messages))

RouteBudget == ops < MaxRequests /\ ops' = ops + 1

\* The handler's locals and response while the request is being served.
RouteState == [ loc |-> route.loc, res |-> route.res ]

\* The request ends with the handler's locals and response as st leaves them.
Finished(st, failure) ==
  [route EXCEPT !.pc = "done", !.loc = st.loc, !.res = st.res,
                !.failure = IF failure = "none" THEN @ ELSE failure]

\* An error is thrown where the handler can catch it: the catch block of the
\* path answers.
Caught(error) ==
  IF route.kind = "image" THEN imageCatch(RouteState, error)
  ELSE IF route.stream THEN streamCatch(RouteState, error)
  ELSE nonStreamCatch(RouteState, error)

\* POST /v1/chat/completions up to the account selection (routes.js 905-1029,
\* the default account type).
PostChatCompletions(messages, model, stream, user) ==
  /\ route.pc \in {"idle", "done"}
  /\ sel.pc \in {"idle", "done"}
  /\ exch.pc \in {"idle", "done"}
  /\ IF messages = NULL
     THEN /\ route' = [IdleRoute EXCEPT
                         !.pc = "done", !.model = model, !.stream = stream,
                         !.failure = "bad request",
                         !.res = json(@, 400, ErrorBody(<<"messages">>))]
          /\ UNCHANGED sel
     ELSE /\ route' = [IdleRoute EXCEPT
                         !.pc = "account", !.model = model, !.stream = stream,
                         !.messages = Val(messages), !.selections = 1]
          /\ sel' = [IdleCall EXCEPT !.pc = "query", !.user_id = "u1",
                                     !.model_name = model, !.user = user]
  /\ UNCHANGED <<accounts, model_quotas, user_shared_quota_pool, now, probe,
                 quota_consumption_log, exch, rs, oauth>>

\* POST /v1beta/models/:model:generateContent up to the account selection
\* (routes.js 1246-1305).
PostGenerateContent(validPrompt, model, user) ==
  /\ route.pc \in {"idle", "done"}
  /\ sel.pc \in {"idle", "done"}
  /\ exch.pc \in {"idle", "done"}
  /\ IF ~ validPrompt
     THEN /\ route' = [IdleRoute EXCEPT
                         !.pc = "done", !.kind = "image", !.model = model,
                         !.failure = "bad request",
                         !.res = json(@, 400, ErrorBody(<<"contents">>))]
          /\ UNCHANGED sel
     ELSE /\ route' = [IdleRoute EXCEPT
                         !.pc = "account", !.kind = "image", !.model = model,
                         !.selections = 1]
          /\ sel' = [IdleCall EXCEPT !.pc = "query", !.user_id = "u1",
                                     !.model_name = model, !.user = user]
  /\ UNCHANGED <<accounts, model_quotas, user_shared_quota_pool, now, probe,
                 quota_consumption_log, exch, rs, oauth>>

\* getAvailableAccount has ended (routes.js 1029, 1305): its error leaves the
\* chat handler, the image handler catches it.
AccountSelected(escapeOutcome) ==
  /\ route.pc = "account"
  /\ sel.pc = "done"
  /\ route' =
       IF sel.result = "ok"
       THEN [route EXCEPT !.pc = "body", !.account = <<Val(sel.account).cookie_id>>]
       ELSE IF route.kind = "image"
       THEN Finished(imageCatch(RouteState, PlainError(<<sel.result>>)), "no account")
       ELSE Finished([RouteState EXCEPT !.res = escapeOutcome], "no account")
  /\ UNCHANGED <<accounts, model_quotas, user_shared_quota_pool, now, sel, probe,
                 quota_consumption_log, exch, rs, oauth>>

\* The request body is built (routes.js 1030-1040, 1308-1309) and the upstream
\* call is started (multi_account_client.js 175-239, 592-631): the cached
\* quota is read, the abort timer is armed, fetch is called.
BuildRequestBody(storedSignatures, cacheAge, escapeOutcome) ==
  /\ route.pc = "body"
  /\ LET body == generateRequestBody(route.messages, segmentsOf(route.model),
                                     <<"u1">>, storedSignatures)
         threw == route.kind = "chat" /\ body.threw
         lookup == IF route.kind = "chat" /\ body.lookedUp
                   THEN <<"signature lookup">> ELSE <<>>
         account == CHOOSE a \in getAccountByCookieId(Val(route.account)) : TRUE
         quotaInfo == IF route.kind = "chat" /\ ~ threw
                      THEN getQuota(model_quotas, account.cookie_id, route.model)
                      ELSE NULL
     IN  IF threw
         THEN /\ cacheAge = NULL
              /\ route' = Finished([RouteState EXCEPT !.res = escapeOutcome],
                                   "unsupported model")
              /\ UNCHANGED exch
         ELSE /\ quotaInfo = NULL <=> cacheAge = NULL
              /\ route' = [route EXCEPT
                             !.cacheAge = cacheAge,
                             !.refresh = IF cacheAge # NULL /\ Val(cacheAge) > CACHE_TTL
                                         THEN "pending" ELSE "none",
                             !.pc = "fetch",
                             !.promptTokens =
                                IF route.kind = "chat"
                                THEN countStringTokens(inputTextOf(route.messages), route.model)
                                ELSE 0,
                             !.calls = @ \o lookup \o <<"upstream">>,
                             !.timer = "armed"]
              /\ exch' = [IdleExchange EXCEPT
                            !.pc = "upstream", !.kind = route.kind, !.user_id = "u1",
                            !.cookie_id = account.cookie_id,
                            !.is_shared = account.is_shared,
                            !.model_name = route.model,
                            !.quotaBefore =
                               IF route.kind = "chat"
                               THEN getQuota(model_quotas, account.cookie_id, route.model)
                               ELSE NULL]
  /\ UNCHANGED <<accounts, model_quotas, user_shared_quota_pool, now, sel, probe,
                 quota_consumption_log, rs, oauth>>

\* Fault variant: generateResponse waits for the refresh and its failure is
\* an error of the request.
RefreshCookieQuotaAwaited(fetch, fraction) ==
  /\ route.refresh = "pending"
  /\ route.pc = "fetch"
  /\ IF fetch # NULL /\ getAccountByCookieId(Val(route.account)) # {}
     THEN /\ model_quotas' = updateQuotasFromModels(model_quotas, Val(route.account),
                                                    Val(fetch), fraction)
          /\ route' = [route EXCEPT !.refresh = "settled"]
          /\ UNCHANGED exch
     ELSE /\ route' = [Finished(Caught(PlainError(<<"refresh">>)), "network")
                        EXCEPT !.refresh = "settled"]
          /\ exch' = [exch EXCEPT !.pc = "done", !.result = "thrown"]
          /\ UNCHANGED model_quotas
  /\ UNCHANGED <<accounts, user_shared_quota_pool, now, sel, probe,
                 quota_consumption_log, rs, oauth>>

\* refreshCookieQuota (514-561) started at line 198 settles at some later
\* instant: with a model list (fetch) the quotas are written, otherwise (the
\* account is gone, the request failed or a query threw) the error is logged.
RefreshCookieQuota(fetch, fraction) ==
  /\ route.refresh = "pending"
  /\ model_quotas' =
       IF fetch # NULL /\ getAccountByCookieId(Val(route.account)) # {}
       THEN updateQuotasFromModels(model_quotas, Val(route.account), Val(fetch), fraction)
       ELSE model_quotas
  /\ route' = [route EXCEPT !.refresh = "settled"]
  /\ UNCHANGED <<accounts, user_shared_quota_pool, now, sel, probe,
                 quota_consumption_log, exch, rs, oauth>>

\* if (response.status === 403) await accountService.updateAccountStatus(cookie_id, 0)
accountsAfterStatus(tbl, cookie_id, status) ==
  IF status = 403 THEN updateAccountStatus(tbl, cookie_id, 0) ELSE tbl

\* The quota-exhaustion test of generateResponse (line 253) and of
\* generateImage (line 645).
isQuotaError(kind, status, mentionsQuota) ==
  IF kind = "image"
  THEN status = 400 \/ status = 429 \/ mentionsQuota
  ELSE status = 429 \/ mentionsQuota

\* fetch resolves with the response head: the finally block clears the abort
\* timer; a status that is not ok is handled (multi_account_client.js 232-265,
\* 625-655) and the handler answers.
FetchResolves(status, mentionsQuota) ==
  /\ route.pc = "fetch"
  /\ LET timed == [route EXCEPT !.timer = "cleared", !.upstream = Append(@, status)]
         st == [ loc |-> route.loc, res |-> route.res ]
         exhausted == ErrorEvent(<<"RESOURCE_EXHAUSTED">>)
     IN  IF status = 200
         THEN /\ route' = [timed EXCEPT !.pc = "read"]
              /\ UNCHANGED <<accounts, exch>>
         ELSE /\ accounts' = accountsAfterStatus(accounts, Val(route.account), status)
              /\ IF isQuotaError(route.kind, status, mentionsQuota)
                 THEN IF route.kind = "image"
                      THEN /\ route' = [Finished(imageCatch(st,
                                          ApiError(<<"RESOURCE_EXHAUSTED">>, status)),
                                          "upstream status")
                                        EXCEPT !.timer = "cleared",
                                               !.upstream = Append(@, status)]
                           /\ exch' = [exch EXCEPT !.pc = "done", !.result = "thrown"]
                      ELSE /\ route' =
                                [Finished(
                                   IF route.stream
                                   THEN streamEpilogue(streamCallback(st, exhausted),
                                                       route.promptTokens, route.model)
                                   ELSE nonStreamEpilogue(nonStreamCallback(st, exhausted),
                                                          route.promptTokens, route.model),
                                   "upstream status")
                                 EXCEPT !.timer = "cleared",
                                        !.upstream = Append(@, status),
                                        !.events = Append(@, exhausted)]
                           /\ exch' = [exch EXCEPT !.pc = "done", !.result = "returned"]
                 ELSE /\ route' = [Finished(Caught(ApiError(<<"responseText">>, status)),
                                            "upstream status")
                                   EXCEPT !.timer = "cleared",
                                          !.upstream = Append(@, status)]
                      /\ exch' = [exch EXCEPT !.pc = "done", !.result = "thrown"]
  /\ UNCHANGED <<model_quotas, user_shared_quota_pool, now, sel, probe,
                 quota_consumption_log, rs, oauth>>

\* fetch rejects (no connection): the finally block clears the timer, the
\* error is rethrown (lines 262-265) and the handler's catch block answers.
FetchRejects ==
  /\ route.pc = "fetch"
  /\ route' = [Finished(Caught(PlainError(<<"fetch failed">>)), "network")
               EXCEPT !.timer = "cleared"]
  /\ exch' = [exch EXCEPT !.pc = "done", !.result = "thrown"]
  /\ UNCHANGED <<accounts, model_quotas, user_shared_quota_pool, now, sel, probe,
                 quota_consumption_log, rs, oauth>>

\* The abort timer fires while it is armed: controller.abort() makes the
\* pending fetch or body read reject.
TimerFires ==
  /\ route.pc \in {"fetch", "read"}
  /\ route.timer = "armed"
  /\ route' = [Finished(Caught(PlainError(<<"aborted">>)),
                        IF route.pc = "fetch" THEN "network" ELSE "none")
               EXCEPT !.timer = "fired"]
  /\ exch' = [exch EXCEPT !.pc = "done", !.result = "thrown"]
  /\ UNCHANGED <<accounts, model_quotas, user_shared_quota_pool, now, sel, probe,
                 quota_consumption_log, rs, oauth>>

\* The read loop hands an event to the callback (lines 281-385).
UpstreamSends(data) ==
  /\ route.pc = "read" /\ route.kind = "chat"
  /\ ~ route.stalled
  /\ Len(route.events) < MaxEvents
  /\ LET st == IF route.stream THEN streamCallback(RouteState, data)
               ELSE nonStreamCallback(RouteState, data)
     IN  route' = [route EXCEPT !.loc = st.loc, !.res = st.res,
                                !.events = Append(@, data)]
  /\ UNCHANGED <<accounts, model_quotas, user_shared_quota_pool, now, sel, probe,
                 quota_consumption_log, exch, rs, oauth>>

\* The upstream stops sending while the connection stays open.
UpstreamStalls ==
  /\ route.pc = "read"
  /\ ~ route.stalled
  /\ route' = [route EXCEPT !.stalled = TRUE]
  /\ UNCHANGED <<accounts, model_quotas, user_shared_quota_pool, now, sel, probe,
                 quota_consumption_log, exch, rs, oauth>>

\* The connection breaks while the body is read: reader.read() (line 282) or
\* response.text() (line 658) rejects outside any try block of the client.
ReadRejects ==
  /\ route.pc = "read"
  /\ route' = Finished(Caught(PlainError(<<"terminated">>)), "none")
  /\ exch' = [exch EXCEPT !.pc = "done", !.result = "thrown"]
  /\ UNCHANGED <<accounts, model_quotas, user_shared_quota_pool, now, sel, probe,
                 quota_consumption_log, rs, oauth>>

\* The body ends: the client goes on to its bookkeeping.
EndOfBody ==
  /\ route.pc = "read"
  /\ ~ route.stalled
  /\ route' = [route EXCEPT !.pc = "bookkeeping"]
  /\ exch' = IF route.kind = "chat"
             THEN [exch EXCEPT !.pc = "bookkeeping", !.delivered = TRUE]
             ELSE exch
  /\ UNCHANGED <<accounts, model_quotas, user_shared_quota_pool, now, sel, probe,
                 quota_consumption_log, rs, oauth>>

\* generateResponse or generateImage has returned: the handler answers
\* (routes.js 1113-1155, 1198-1235, 1321).
Respond ==
  /\ route.pc = "bookkeeping"
  /\ exch.pc = "done"
  /\ route' =
       Finished(
         IF route.kind = "image"
         THEN [RouteState EXCEPT !.res = json(@, 200, CompletionBody(<<"data">>, NULL))]
         ELSE IF route.stream
         THEN streamEpilogue(RouteState, route.promptTokens, route.model)
         ELSE nonStreamEpilogue(RouteState, route.promptTokens, route.model),
         "none")
  /\ UNCHANGED <<accounts, model_quotas, user_shared_quota_pool, now, sel, probe,
                 quota_consumption_log, exch, rs, oauth>>

\* The steps of a request once it has been received.
RouteStepWith(cacheAges) ==
  \/ \E escapeOutcome \in EscapeOutcomes : AccountSelected(escapeOutcome)
  \/ \E cacheAge \in cacheAges, escapeOutcome \in EscapeOutcomes :
       BuildRequestBody(NULL, cacheAge, escapeOutcome)
  \/ \E status \in UpstreamStatuses, mentionsQuota \in BOOLEAN :
       FetchResolves(status, mentionsQuota)
  \/ FetchRejects
  \/ TimerFires
  \/ \E data \in UpstreamEvents : UpstreamSends(data)
  \/ UpstreamStalls
  \/ ReadRejects
  \/ EndOfBody
  \/ \E failing \in { "none", "lookup" }, fetch \in { NULL } \cup { <<l>> : l \in RouteModelLists },
        fraction \in QuotaFractions :
       route.pc = "bookkeeping" /\ FinishBookkeeping(failing, fetch, fraction)
  \/ \E fetch \in { NULL } \cup { <<l>> : l \in RouteModelLists }, fraction \in QuotaFractions :
       route.pc = "bookkeeping" /\ ImageCompletes(fetch, fraction)
  \/ Respond

\* The steps of a request whose quota cache is fresh.
RouteStep == RouteStepWith(FreshCacheAges)

RouteNext ==
  \/ \E auth \in LedgerAuthInputs, models \in RouteModelLists,
        expires_in \in ExpiresIn, fraction \in QuotaFractions :
       /\ route.pc \in {"idle", "done"}
       /\ HandleCallback(auth, models, expires_in, fraction) /\ UNCHANGED ops
  \/ route.pc \in {"idle", "done"} /\ Tick /\ UNCHANGED ops
  \/ \E messages \in RequestMessages, model \in RequestModels, stream \in BOOLEAN,
        user \in { NULL } :
       RouteBudget /\ PostChatCompletions(messages, model, stream, user)
  \/ \E validPrompt \in BOOLEAN, model \in RequestModels, user \in { NULL } :
       RouteBudget /\ PostGenerateContent(validPrompt, model, user)
  \/ route.pc = "account" /\ SelectionStep /\ UNCHANGED ops
  \/ RouteStep /\ UNCHANGED ops

RouteSpec == Init /\ [][RouteNext]_vars

\* Streaming and non-streaming chat requests on one model whose cached
\* quota row may be stale, next to the background refresh.
StaleCacheNext ==
  \/ \E auth \in LedgerAuthInputs, models \in RouteModelLists,
        expires_in \in ExpiresIn, fraction \in QuotaFractions :
       /\ route.pc \in {"idle", "done"}
       /\ HandleCallback(auth, models, expires_in, fraction) /\ UNCHANGED ops
  \/ \E messages \in RequestMessages \ { NULL }, stream \in BOOLEAN :
       RouteBudget /\ PostChatCompletions(messages, "gemini-2.5-pro", stream, NULL)
  \/ route.pc = "account" /\ SelectionStep /\ UNCHANGED ops
  \/ RouteStepWith(CacheAges) /\ UNCHANGED ops
  \/ \E fetch \in { NULL } \cup { <<l>> : l \in RouteModelLists },
        fraction \in BackgroundFractions :
       RefreshCookieQuota(fetch, fraction) /\ UNCHANGED ops

StaleCacheSpec == Init /\ [][StaleCacheNext]_vars

\* ------------------------------------------ OAuthService: the handshake steps
\* What the steps of the handshake leave alone besides the tables.
handshakeRest == <<now, ops, sel, probe, quota_consumption_log, exch, rs, route>>

\* The models the capability request returns, the fraction it reports for
\* them, the lifetime of the access token and the cookie_id values the
\* exchanged refresh tokens hash to.
HandshakeModels == { "m1" }
HandshakeFractions == { 10000 }
HandshakeExpiresIn == { 3600 }
HandshakeCookies == { "s1", "s2" }

Call(c) == oauth.calls[c]

\* generateAuthUrl (39-66): store the entry, start its timer.
GenerateAuthUrl(user_id, is_shared) ==
  /\ Len(oauth.issuedAt) < MaxHandshakes
  /\ LET state == Len(oauth.issuedAt) + 1
     IN  oauth' = [oauth EXCEPT
           !.stateMap = @ \cup { [ state |-> state, user_id |-> user_id,
                                   is_shared |-> is_shared, timestamp |-> now ] },
           !.timers = @ \cup { [ state |-> state, due |-> now + StateTtlMs ] },
           !.issuedAt = Append(@, now)]
  /\ UNCHANGED <<accounts, model_quotas, user_shared_quota_pool, handshakeRest>>

\* The callback of setTimeout(() => this.stateMap.delete(state), 5 * 60 * 1000)
\* (line 45) runs at some instant not before the delay has passed.
StateTimerFires(state) ==
  /\ \E t \in oauth.timers : t.state = state /\ now >= t.due
  /\ oauth' = [oauth EXCEPT !.stateMap = stateMapDelete(@, state),
                            !.timers = { t \in @ : t.state # state }]
  /\ UNCHANGED <<accounts, model_quotas, user_shared_quota_pool, handshakeRest>>

\* handleCallback 386-391: the state check.  The calls start in the order
\* of their numbers.
CallbackStarts(c, state) ==
  /\ Call(c).pc = "idle"
  /\ IF c = 1 THEN TRUE ELSE Call(c - 1).pc # "idle"
  /\ LET r == getStateInfo(oauth.stateMap, state, now)
     IN  oauth' = [oauth EXCEPT
           !.stateMap = r.stateMap,
           !.calls[c] = IF r.info = NULL
                        THEN [@ EXCEPT !.pc = "rejected", !.state = state,
                                       !.error = "Invalid or expired state parameter"]
                        ELSE [@ EXCEPT !.pc = "exchange", !.state = state,
                                       !.user_id = Val(r.info).user_id,
                                       !.is_shared = Val(r.info).is_shared]]
  /\ UNCHANGED <<accounts, model_quotas, user_shared_quota_pool, handshakeRest>>

\* 394-404: exchangeCodeForToken resolves with a refresh token whose hash is
\* cookie_id, or rejects; expires_at is computed from Date.now().
TokenExchange(c, ok, cookie_id) ==
  /\ Call(c).pc = "exchange"
  /\ \E expires_in \in HandshakeExpiresIn :
       oauth' = [oauth EXCEPT !.calls[c] =
                   IF ok THEN [@ EXCEPT !.pc = "capability", !.cookie_id = cookie_id,
                                        !.expires_at = now + expires_in * 1000]
                   ELSE [@ EXCEPT !.pc = "failed", !.error = "exchange"]]
  /\ UNCHANGED <<accounts, model_quotas, user_shared_quota_pool, handshakeRest>>

\* Fault variant: the outcome of the capability request is not tested.
CapabilityCheckIgnored(c, outcome) ==
  /\ Call(c).pc = "capability"
  /\ oauth' = [oauth EXCEPT !.calls[c] = [@ EXCEPT !.pc = "create", !.check = outcome]]
  /\ UNCHANGED <<accounts, model_quotas, user_shared_quota_pool, handshakeRest>>

\* 408-431: the capability request: "ok" (HTTP success, a non-empty model
\* list), "http" (response.ok false) or "empty" (no models).
CapabilityCheck(c, outcome) ==
  /\ Call(c).pc = "capability"
  /\ oauth' = [oauth EXCEPT !.calls[c] =
                 IF outcome = "ok" THEN [@ EXCEPT !.pc = "create", !.check = outcome]
                 ELSE [@ EXCEPT !.pc = "failed", !.check = outcome,
                                !.error = "capability"]]
  /\ UNCHANGED <<accounts, model_quotas, user_shared_quota_pool, handshakeRest>>

\* 434-441: accountService.createAccount; the INSERT fails on accounts_pkey
\* when the cookie_id is present.
CreateAccountStep(c) ==
  /\ Call(c).pc = "create"
  /\ IF getAccountByCookieId(Call(c).cookie_id) # {}
     THEN /\ oauth' = [oauth EXCEPT !.calls[c].pc = "failed",
                                    !.calls[c].error = "accounts_pkey"]
          /\ UNCHANGED accounts
     ELSE /\ accounts' = createAccount(accounts,
                           [ cookie_id  |-> Call(c).cookie_id,
                             user_id    |-> Call(c).user_id,
                             is_shared  |-> Call(c).is_shared,
                             expires_at |-> <<Call(c).expires_at>> ])
          /\ oauth' = [oauth EXCEPT !.calls[c].pc = "quotas", !.calls[c].created = TRUE]
  /\ UNCHANGED <<model_quotas, user_shared_quota_pool, handshakeRest>>

\* Fault variant: a failure of the quota write removes the account row and
\* the state entry.
UpdateQuotasStepRollingBack(c, ok) ==
  /\ Call(c).pc = "quotas"
  /\ IF ok
     THEN /\ \E fraction \in HandshakeFractions :
               model_quotas' = updateQuotasFromModels(model_quotas, Call(c).cookie_id,
                                                      HandshakeModels, fraction)
          /\ oauth' = [oauth EXCEPT !.calls[c].pc =
                         IF Call(c).is_shared = 1 THEN "count" ELSE "finish"]
          /\ UNCHANGED accounts
     ELSE /\ oauth' = [oauth EXCEPT !.calls[c].pc = "failed",
                                    !.calls[c].error = "quotas",
                                    !.stateMap = stateMapDelete(@, Call(c).state)]
          /\ accounts' = deleteAccount(accounts, Call(c).cookie_id)
          /\ UNCHANGED model_quotas
  /\ UNCHANGED <<user_shared_quota_pool, handshakeRest>>

\* 444: quotaService.updateQuotasFromModels resolves or rejects (a query
\* that fails).
UpdateQuotasStep(c, ok) ==
  /\ Call(c).pc = "quotas"
  /\ IF ok
     THEN /\ \E fraction \in HandshakeFractions :
               model_quotas' = updateQuotasFromModels(model_quotas, Call(c).cookie_id,
                                                      HandshakeModels, fraction)
          /\ oauth' = [oauth EXCEPT !.calls[c].pc =
                         IF Call(c).is_shared = 1 THEN "count" ELSE "finish"]
     ELSE /\ oauth' = [oauth EXCEPT !.calls[c].pc = "failed",
                                    !.calls[c].error = "quotas"]
          /\ UNCHANGED model_quotas
  /\ UNCHANGED <<accounts, user_shared_quota_pool, handshakeRest>>

\* update_user_shared_quota_max, first statements (83-86): the count of the
\* user's enabled shared accounts and the new ceiling.
CeilingCount(c) ==
  /\ Call(c).pc = "count"
  /\ oauth' = [oauth EXCEPT
       !.calls[c].pc = "update",
       !.calls[c].v_new_max =
          QuotaPerSharedCookie * get_user_shared_cookie_count(accounts, Call(c).user_id)]
  /\ UNCHANGED <<accounts, model_quotas, user_shared_quota_pool, handshakeRest>>

\* The pool row of (user, model).
poolRows(pool, user_id, model_name) ==
  { r \in pool : r.user_id = user_id /\ r.model_name = model_name }

\* Next statement (89-93): the UPDATE; FOUND tells whether it hit a row.
CeilingUpdate(c, model_name) ==
  /\ Call(c).pc = "update"
  /\ IF poolRows(user_shared_quota_pool, Call(c).user_id, model_name) # {}
     THEN /\ user_shared_quota_pool' =
               { IF r \in poolRows(user_shared_quota_pool, Call(c).user_id, model_name)
                 THEN [r EXCEPT !.max_quota = Call(c).v_new_max,
                                !.quota = Max(r.quota, Call(c).v_new_max)]
                 ELSE r
                 : r \in user_shared_quota_pool }
          /\ oauth' = [oauth EXCEPT !.calls[c].pc = "finish"]
     ELSE /\ oauth' = [oauth EXCEPT !.calls[c].pc = "insert"]
          /\ UNCHANGED user_shared_quota_pool
  /\ UNCHANGED <<accounts, model_quotas, handshakeRest>>

\* Last statement (96-99): the INSERT after NOT FOUND; a row of the same
\* (user, model) inserted meanwhile violates uk_user_shared_model and the
\* function ends with that error.
CeilingInsert(c, model_name) ==
  /\ Call(c).pc = "insert"
  /\ IF poolRows(user_shared_quota_pool, Call(c).user_id, model_name) # {}
     THEN /\ oauth' = [oauth EXCEPT !.calls[c].pc = "failed",
                                    !.calls[c].error = "uk_user_shared_model"]
          /\ UNCHANGED user_shared_quota_pool
     ELSE /\ user_shared_quota_pool' = user_shared_quota_pool \cup
               { [ user_id    |-> Call(c).user_id,
                   model_name |-> model_name,
                   quota      |-> Call(c).v_new_max,
                   max_quota  |-> Call(c).v_new_max ] }
          /\ oauth' = [oauth EXCEPT !.calls[c].pc = "finish"]
  /\ UNCHANGED <<accounts, model_quotas, handshakeRest>>

\* 457-461: this.stateMap.delete(state); return account.
CallbackReturns(c) ==
  /\ Call(c).pc = "finish"
  /\ oauth' = [oauth EXCEPT !.stateMap = stateMapDelete(@, Call(c).state),
                            !.consumed = @ \cup { Call(c).state },
                            !.calls[c].pc = "returned"]
  /\ UNCHANGED <<accounts, model_quotas, user_shared_quota_pool, handshakeRest>>

OAuthNext ==
  \/ \E is_shared \in {0, 1} : GenerateAuthUrl("u1", is_shared)
  \/ \E state \in StateTokens : StateTimerFires(state)
  \/ \E c \in Callbacks, state \in StateTokens : CallbackStarts(c, state)
  \/ \E c \in Callbacks, ok \in BOOLEAN, cookie_id \in HandshakeCookies :
       TokenExchange(c, ok, cookie_id)
  \/ \E c \in Callbacks, outcome \in { "ok", "http", "empty" } : CapabilityCheck(c, outcome)
  \/ \E c \in Callbacks : CreateAccountStep(c)
  \/ \E c \in Callbacks, ok \in BOOLEAN : UpdateQuotasStep(c, ok)
  \/ \E c \in Callbacks : CeilingCount(c)
  \/ \E c \in Callbacks, model_name \in HandshakeModels : CeilingUpdate(c, model_name)
  \/ \E c \in Callbacks, model_name \in HandshakeModels : CeilingInsert(c, model_name)
  \/ \E c \in Callbacks : CallbackReturns(c)
  \/ Tick /\ UNCHANGED ops

OAuthSpec == Init /\ [][OAuthNext]_vars

\* --------------------------------- getAvailableAccount next to other requests
\* The getAvailableAccount call of another request has chosen the account,
\* found its token expired and failed to refresh it (lines 145-154).
OtherCallRefreshFails(cookie_id, isInvalidGrant) ==
  /\ getAccountByCookieId(cookie_id) # {}
  /\ \A a \in getAccountByCookieId(cookie_id) : isTokenExpired(a, now)
  /\ accounts' = onRefreshError(accounts, cookie_id, isInvalidGrant)
  /\ UNCHANGED <<ledgerVars, rs, model_quotas, user_shared_quota_pool, now, sel, probe>>

ConcurrentNext ==
  \/ \E auth \in AuthInputs, models \in ModelLists,
        expires_in \in ExpiresIn, fraction \in QuotaFractions :
       Budget /\ HandleCallback(auth, models, expires_in, fraction)
  \/ \E c \in Cookies, status \in {0, 1} : Budget /\ PutAccountStatus(c, status)
  \/ \E c \in Cookies, isInvalidGrant \in BOOLEAN :
       Budget /\ OtherCallRefreshFails(c, isInvalidGrant)
  \/ Budget /\ Tick
  \/ \E u \in Users, m \in Models, user \in PreferValues :
       CallGetAvailableAccount(u, m, user)
  \/ SelectionStep

ConcurrentSpec == Init /\ [][ConcurrentNext]_vars

\* ================================================================ claims
\* State functions the formulas share.

\* The pool value (is_shared) the call prefers.
PreferredFlag == IF PreferShared(sel.user) = 1 THEN 1 ELSE 0

\* Account rows that are enabled and belong to one of the caller's two pools.
PoolRows ==
  { a \in accounts :
      /\ a.status = 1
      /\ a.need_refresh = FALSE
      /\ (a.is_shared = 1 \/ (a.is_shared = 0 /\ a.user_id = sel.user_id)) }

\* The model is marked available on the account, read from the table.
MarkedAvailable(cookie_id, model_name) ==
  \E q \in model_quotas :
    q.cookie_id = cookie_id /\ q.model_name = model_name /\ q.status = 1

\* The user's pool holds quota for a model of the sharing group, read from
\* the table.
GroupQuotaLeft(user_id, model_name) ==
  \E r \in user_shared_quota_pool :
    /\ r.user_id = user_id
    /\ r.model_name \in getQuotaSharedModels(model_name)
    /\ r.quota > 0

\* A snapshot row passes the model-availability and shared-quota filters.
PassesFilters(a) ==
  /\ MarkedAvailable(a.cookie_id, sel.model_name)
  /\ (a.is_shared = 1 => GroupQuotaLeft(sel.user_id, sel.model_name))

\* The step in which the call filters its candidates and picks one.
PicksAccount == sel.pc = "filter" /\ sel'.pc \in {"refresh", "done"} /\ sel'.account # NULL

\* The step in which the call returns an account.
ReturnsAccount == sel.pc \in {"filter", "refresh"} /\ sel'.pc = "done" /\ sel'.result = "ok"

\* The step in which the call retries after a failed refresh.
Retries == sel.pc = "refresh" /\ sel'.pc = "query"

\* ------------------------------------------------------------------- C1
\* C1: whenever the preferred pool (the caller's own dedicated accounts when
\* prefer_shared is not 1, the shared accounts when it is 1) holds a
\* non-excluded candidate that passes the filters, the account picked, and
\* hence returned, is of the preferred pool; a dedicated account picked is
\* always the caller's own.
C1_PreferredPoolFirst ==
  [][ /\ PicksAccount =>
           LET picked == Val(sel'.account)
           IN  /\ picked \in ToSet(sel.accounts)
               /\ picked.cookie_id \notin ToSet(sel.excludeCookieIds)
               /\ (picked.is_shared = 0 => picked.user_id = sel.user_id)
               /\ (\E a \in ToSet(sel.accounts) :
                      a.is_shared = PreferredFlag /\ PassesFilters(a))
                  => picked.is_shared = PreferredFlag
      /\ (sel.pc = "refresh" /\ ReturnsAccount) =>
           Val(sel'.account).cookie_id = Val(sel.account).cookie_id
    ]_vars

\* A dedicated-first call returned a dedicated account although a shared
\* account was eligible for the same user and model.
C1_Witness ==
  /\ sel.pc = "done" /\ sel.result = "ok"
  /\ PreferShared(sel.user) = 0
  /\ Val(sel.account).is_shared = 0
  /\ \E a \in PoolRows : a.is_shared = 1 /\ PassesFilters(a)

\* ------------------------------------------------------------------- C2
\* C2: every retry after a failed refresh runs with the previous exclusion
\* list plus the failed account, which was not in it; the list never holds
\* more entries than there are accounts, and a call that has been made
\* always ends (with an account or a no-account error).
C2_ExclusionProgress ==
  /\ [][ Retries =>
           LET failed == Val(sel.account).cookie_id
           IN  /\ failed \notin ToSet(sel.excludeCookieIds)
               /\ ToSet(sel'.excludeCookieIds) = ToSet(sel.excludeCookieIds) \cup {failed}
               /\ Len(sel'.excludeCookieIds) = Len(sel.excludeCookieIds) + 1
       ]_vars
  /\ [](Len(sel.excludeCookieIds) <= Cardinality(accounts))
  /\ [][ (sel.pc = "query" /\ sel'.pc # "query"
          /\ \A a \in PoolRows : a.cookie_id \in ToSet(sel.excludeCookieIds))
         => (sel'.pc = "done" /\ sel'.result = "no_accounts") ]_vars
  /\ (sel.pc = "query" ~> sel.pc = "done")

\* A second retry: two accounts failed their refresh one after the other.
C2_Witness ==
  /\ sel.pc = "query"
  /\ Len(sel.excludeCookieIds) = 2

\* ------------------------------------------------------------------- C3
\* C3: the account picked has the requested model marked available, and a
\* shared account is picked only while the user's pool row of some model of
\* the quota-sharing group holds quota above zero; the account returned
\* after a refresh is the one that was picked.
C3_OnlyEligibleAccounts ==
  [][ /\ PicksAccount =>
           LET picked == Val(sel'.account)
           IN  /\ MarkedAvailable(picked.cookie_id, sel.model_name)
               /\ picked.is_shared = 1 => GroupQuotaLeft(sel.user_id, sel.model_name)
      /\ ReturnsAccount =>
           /\ sel'.user_id = sel.user_id /\ sel'.model_name = sel.model_name
           /\ sel.pc = "refresh" =>
                /\ Val(sel'.account).cookie_id = Val(sel.account).cookie_id
                /\ Val(sel'.account).is_shared = Val(sel.account).is_shared
    ]_vars

\* A shared account was returned on the strength of another model of the
\* group: the pool row of the requested model is empty.
C3_Witness ==
  /\ sel.pc = "done" /\ sel.result = "ok"
  /\ Val(sel.account).is_shared = 1
  /\ \E r \in user_shared_quota_pool :
       r.user_id = sel.user_id /\ r.model_name = sel.model_name /\ r.quota = 0
  /\ GroupQuotaLeft(sel.user_id, sel.model_name)

\* ------------------------------------------------------------------- C4
\* C4: the call fails with the no-account error at the query exactly when no
\* enabled account of either pool is left outside the exclusion list, and at
\* the filter exactly when no candidate passes the filters; in every other
\* case an account is picked, and the call fails in no other step.
C4_ErrorOnlyWhenNoCandidate ==
  [][ /\ (sel.pc = "query" /\ sel'.pc # "query") =>
           LET left == { a \in PoolRows : a.cookie_id \notin ToSet(sel.excludeCookieIds) }
           IN  IF left = {}
               THEN sel'.pc = "done" /\ sel'.result = "no_accounts"
               ELSE sel'.pc = "filter" /\ ToSet(sel'.accounts) = left
      /\ (sel.pc = "filter" /\ sel'.pc # "filter") =>
           IF \E a \in ToSet(sel.accounts) : PassesFilters(a)
           THEN PicksAccount
           ELSE sel'.pc = "done" /\ sel'.result = "exhausted"
      /\ (sel'.pc = "done" /\ sel.pc # "done" /\ sel'.result # "ok") =>
           sel.pc \in {"query", "filter"}
    ]_vars

\* Dedicated-first user whose only dedicated account is disabled: the call
\* returned an enabled shared account whose quota for the model is 0.5.
C4_Witness ==
  /\ sel.pc = "done" /\ sel.result = "ok"
  /\ sel.user = <<0>>
  /\ Val(sel.account).is_shared = 1
  /\ \E q \in model_quotas :
       /\ q.cookie_id = Val(sel.account).cookie_id
       /\ q.model_name = sel.model_name
       /\ q.quota = 5000
  /\ \E d \in accounts : d.user_id = sel.user_id /\ d.is_shared = 0 /\ d.status = 0
  /\ \A d \in accounts :
       (d.user_id = sel.user_id /\ d.is_shared = 0) => d.status = 0

\* ------------------------------------------------------------------- C5
\* C5: when the refresh fails with invalid_grant the account's status is 0
\* (need_refresh untouched) in the state the retry starts from, the retry's
\* exclusion list holds the account, and no candidate snapshot and no pick
\* of the call holds an excluded account.
C5_InvalidGrantDisables ==
  [][ /\ RefreshFails(TRUE) =>
           LET c == Val(sel.account).cookie_id
           IN  /\ sel'.pc = "query"
               /\ c \in ToSet(sel'.excludeCookieIds)
               /\ \E a \in accounts : a.cookie_id = c
               /\ \A a \in accounts' : a.cookie_id = c => a.status = 0
               /\ \A a \in accounts, b \in accounts' :
                    (a.cookie_id = c /\ b.cookie_id = c) =>
                       b.need_refresh = a.need_refresh
      /\ (sel.pc = "query" /\ sel'.pc = "filter") =>
           /\ sel'.excludeCookieIds = sel.excludeCookieIds
           /\ \A a \in ToSet(sel'.accounts) :
                a.cookie_id \notin ToSet(sel.excludeCookieIds)
      /\ PicksAccount =>
           Val(sel'.account).cookie_id \notin ToSet(sel.excludeCookieIds)
    ]_vars

\* A retry that found other candidates after an invalid_grant failure.
C5_Witness ==
  /\ sel.pc = "filter"
  /\ Len(sel.excludeCookieIds) = 1
  /\ Len(sel.accounts) > 0
  /\ \E a \in accounts :
       /\ a.cookie_id = sel.excludeCookieIds[1]
       /\ a.status = 0
       /\ a.need_refresh = FALSE

\* ------------------------------------------------------------------- C6
\* The account row is disabled and flagged for re-authorization.
FlaggedNeedRefresh(tbl, cookie_id) ==
  \A a \in tbl : a.cookie_id = cookie_id => (a.status = 0 /\ a.need_refresh = TRUE)

\* C6: at each of the three refresh sites (the selection call,
\* getAvailableModels, the quota route) a refresh failure other than
\* invalid_grant leaves the account with status 0 and need_refresh TRUE.
C6_EverySiteFlags ==
  [][ /\ RefreshFails(FALSE) =>
           FlaggedNeedRefresh(accounts', Val(sel.account).cookie_id)
      /\ \A u \in Users :
           (Budget /\ GetAvailableModelsRefreshFails(u, FALSE)) =>
              FlaggedNeedRefresh(accounts', modelsAccount(u).cookie_id)
      /\ \A c \in Cookies :
           (Budget /\ GetAccountQuotasRefreshFails(c, FALSE)) =>
              FlaggedNeedRefresh(accounts', c)
    ]_vars

\* ------------------------------------------------------------------- C7
\* C7: isTokenExpired answers true exactly when the account has no expiry
\* or the instant of the call is at or past expires_at - 300000 ms.
C7_ExpiryMargin ==
  probe # NULL =>
    LET p == Val(probe)
    IN  p.expired <=> (IsNull(p.expires_at) \/ p.now >= Val(p.expires_at) - 300000)

\* The call made exactly on the margin: expired, one millisecond early.
C7_Witness ==
  /\ probe # NULL
  /\ Val(probe).expires_at = <<600000>>
  /\ Val(probe).now = 300000
  /\ Val(probe).expired = TRUE

\* ------------------------------------------------------------ C8, C9, C10
\* Enabled shared accounts, of a user and of everyone.
EnabledSharedOf(tbl, user_id) ==
  { a \in tbl : a.user_id = user_id /\ a.is_shared = 1 /\ a.status = 1 }

EnabledSharedOfAll(tbl) == { a \in tbl : a.is_shared = 1 /\ a.status = 1 }

\* The step authorizes a shared account of user_id that announces model_name,
\* which is when the ceiling of (user_id, model_name) is recomputed.
RecomputesCeiling(user_id, model_name) ==
  \E a \in accounts' \ accounts :
    /\ a.user_id = user_id
    /\ a.is_shared = 1
    /\ \E q \in model_quotas' \ model_quotas :
         q.cookie_id = a.cookie_id /\ q.model_name = model_name

PoolRow(pool, user_id, model_name) ==
  { r \in pool : r.user_id = user_id /\ r.model_name = model_name }

C9_QuotaWithinCeiling ==
  \A r \in user_shared_quota_pool : r.quota <= r.max_quota

\* C9 (amended): a row is created with quota = max_quota, and a step leaves
\* quota <= max_quota in a row unless it sets the ceiling below the quota
\* the row held before the step.
C9_QuotaWithinCeilingUnlessLowered ==
  [][ \A u \in Users, m \in Models :
        \A r2 \in PoolRow(user_shared_quota_pool', u, m) :
          IF PoolRow(user_shared_quota_pool, u, m) = {}
          THEN r2.quota = r2.max_quota
          ELSE \A r1 \in PoolRow(user_shared_quota_pool, u, m) :
                 r2.max_quota >= r1.quota => r2.quota <= r2.max_quota
    ]_vars

\* A row recomputed to the ceiling 4.0 and then drawn on.
C9_Witness ==
  \E r \in user_shared_quota_pool :
    /\ r.max_quota = 40000
    /\ r.quota > 0
    /\ r.quota < r.max_quota

\* C10: a recomputation for (U, M) with new ceiling n creates the row with
\* quota = max_quota = n when there is none, else sets quota to
\* max(quota, n) and max_quota to n; it touches no other row, never lowers
\* quota, and a second recomputation changes nothing.
C10_RecomputationIdempotent ==
  \A u \in Users, m \in Models :
    LET n == 20000 * Cardinality(EnabledSharedOf(accounts, u))
        before == PoolRow(user_shared_quota_pool, u, m)
        once == update_user_shared_quota_max(accounts, user_shared_quota_pool, u, m)
        twice == update_user_shared_quota_max(accounts, once, u, m)
    IN  /\ twice = once
        /\ once \ PoolRow(once, u, m) = user_shared_quota_pool \ before
        /\ Cardinality(PoolRow(once, u, m)) = 1
        /\ \A r2 \in PoolRow(once, u, m) :
             /\ r2.max_quota = n
             /\ IF before = {}
                THEN r2.quota = n
                ELSE \A r1 \in before :
                       /\ r2.quota = (IF r1.quota >= n THEN r1.quota ELSE n)
                       /\ r2.quota >= r1.quota

\* All three cases at once: a key with no row, a row below the new ceiling
\* (to be topped up) and a row above it (to be kept).
C10_Witness ==
  /\ \E u \in Users, m \in Models : PoolRow(user_shared_quota_pool, u, m) = {}
  /\ \E r \in user_shared_quota_pool :
       r.quota < 20000 * Cardinality(EnabledSharedOf(accounts, r.user_id))
  /\ \E r \in user_shared_quota_pool :
       r.quota > 20000 * Cardinality(EnabledSharedOf(accounts, r.user_id))

\* ------------------------------------------------------------------ C11
\* The step recomputes the ceiling of (user_id, model_name) while the user's
\* enabled shared accounts go from three to four.
ThreeToFour(user_id, model_name) ==
  /\ RecomputesCeiling(user_id, model_name)
  /\ Cardinality(EnabledSharedOf(accounts, user_id)) = 3
  /\ Cardinality(EnabledSharedOf(accounts', user_id)) = 4

\* C11 as stated: when the count goes from 3 to 4 and the ceiling of m is
\* recomputed, max_quota goes from 6.0 to 8.0 and a quota below 8.0 is left
\* untouched.
C11_TopUpLeavesQuota ==
  [][ \A u \in Users, m \in Models :
        ThreeToFour(u, m) =>
          \A r1 \in PoolRow(user_shared_quota_pool, u, m),
             r2 \in PoolRow(user_shared_quota_pool', u, m) :
            (r1.max_quota = 60000 /\ r1.quota < 80000) =>
               (r2.max_quota = 80000 /\ r2.quota = r1.quota)
    ]_vars

\* C11 (amended): when the count goes from 3 to 4 and the ceiling of m is
\* recomputed, max_quota becomes 8.0 (from 6.0) and a quota below 8.0 is
\* raised to 8.0; only a quota of 8.0 or more is left untouched.
C11_TopUpRaisesQuota ==
  [][ \A u \in Users, m \in Models :
        ThreeToFour(u, m) =>
          /\ Cardinality(PoolRow(user_shared_quota_pool', u, m)) = 1
          /\ \A r1 \in PoolRow(user_shared_quota_pool, u, m),
                r2 \in PoolRow(user_shared_quota_pool', u, m) :
               /\ r2.max_quota = 80000
               /\ r1.quota < 80000 => r2.quota = 80000
               /\ r1.quota >= 80000 => r2.quota = r1.quota
    ]_vars

\* Four enabled shared accounts that all announced the same model, and one
\* draw on the user's single row in between: the row existed at the fourth
\* authorization and stands at 8.0 / 8.0.
C11_Witness ==
  /\ Cardinality(EnabledSharedOf(accounts, "u1")) = 4
  /\ ops > 4
  /\ Cardinality({ r \in user_shared_quota_pool : r.user_id = "u1" }) = 1
  /\ \E r \in user_shared_quota_pool :
       r.user_id = "u1" /\ r.max_quota = 80000 /\ r.quota = 80000

\* ------------------------------------------------------------------ C12
\* The step in which an exchange ends by returning to its caller.
ExchangeReturns ==
  /\ exch.pc \in {"upstream", "bookkeeping"}
  /\ exch'.pc = "done"
  /\ exch'.result = "returned"

C13_OneRowPerExchange ==
  [][ (ExchangeReturns /\ exch'.failed = "none") =>
        LET before == IF exch.kind = "chat"
                      THEN exch.quotaBefore
                      ELSE getQuota(model_quotas, exch.cookie_id, exch.model_name)
            after == IF exch.kind = "chat"
                     THEN exch'.quotaAfter
                     ELSE getQuota(model_quotas', exch.cookie_id, exch.model_name)
        IN  /\ quota_consumption_log \subseteq quota_consumption_log'
            /\ Cardinality(quota_consumption_log' \ quota_consumption_log)
                 = (IF before # NULL /\ after # NULL THEN 1 ELSE 0)
    ]_vars

\* ------------------------------------------------------------------ C14
\* C14: consumption-log rows are only appended: every step keeps every
\* existing row as it is.
C14_AppendOnly ==
  [][ quota_consumption_log \subseteq quota_consumption_log' ]_vars

\* ------------------------------------------------------------------ C15
\* C15: whichever call of the bookkeeping after the read loop throws,
\* generateResponse returns normally and what was relayed to the caller is
\* what an exchange with successful bookkeeping relays.
C15_BookkeepingNeverEscalates ==
  [][ (exch.pc = "bookkeeping" /\ exch' # exch) =>
        /\ exch'.pc = "done"
        /\ exch'.result = "returned"
        /\ exch.delivered = TRUE
        /\ exch'.delivered = exch.delivered
    ]_vars

\* An exchange returned although recording its consumption threw.
C15_Witness ==
  /\ exch.pc = "done" /\ exch.kind = "chat"
  /\ exch.failed = "record"
  /\ exch.result = "returned"
  /\ exch.delivered

\* The events of a body that arrives as one chunk.
EventsOfWhole(body) == readChunk(ReaderLocals, decode(body).text).events

\* The body of one text record "hi".
HiBody == <<"dat", "a: ", "T<", "T>", "LF">>

StreamDone == rs.pc = "done"

\* C16: the events passed to the callback are the same for every division
\* of the body into chunks, and one record with the text "hi" that arrives
\* in three chunks yields exactly one text event with the content "hi".
C16_ChunkingInvariant ==
  StreamDone =>
    /\ rs.loc.events = EventsOfWhole(rs.body)
    /\ (rs.body = HiBody /\ rs.loc.chunkCount = 3) =>
         rs.loc.events = << [type |-> "text", content |-> <<"h", "i">>] >>

\* The text of the bytes read so far.
RECURSIVE TotalLen(_)
TotalLen(seqs) == IF seqs = <<>> THEN 0 ELSE Len(Head(seqs)) + TotalLen(Tail(seqs))

ConsumedText == decode(SubSeq(rs.body, 1, Len(rs.body) - TotalLen(rs.chunks))).text

\* The complete lines of a text, and the record of a line (NULL when the
\* line carries none).
CompleteLines(text) == SubSeq(split(text), 1, Len(split(text)) - 1)

RecordOf(line) ==
  IF startsWithData(line) THEN JSONparse(trim(SubSeq(line, 3, Len(line)))) ELSE NULL

CarriesFinish(line) == RecordOf(line) # NULL /\ Val(RecordOf(line)).finishReason # NULL

CarriesFunctionCall(line) ==
  /\ RecordOf(line) # NULL
  /\ Val(RecordOf(line)).parts # NULL
  /\ \E k \in DOMAIN Val(Val(RecordOf(line)).parts) :
       Val(Val(RecordOf(line)).parts)[k].functionCall # NULL

EventsOfType(type) == { k \in DOMAIN rs.loc.events : rs.loc.events[k].type = type }

FinishLinesRead ==
  { k \in DOMAIN CompleteLines(ConsumedText) : CarriesFinish(CompleteLines(ConsumedText)[k]) }

\* C17: at every point of the read loop there is one tool_calls event for
\* each record with a finish indicator read so far, whatever number of
\* function-call segments came before it, and no other event carries a
\* function call.
C17_FlushPerFinishRecord ==
  rs.pc # "idle" =>
    /\ Cardinality(EventsOfType("tool_calls")) = Cardinality(FinishLinesRead)
    /\ \A k \in DOMAIN rs.loc.events :
         rs.loc.events[k].type \in { "reasoning", "text", "image", "tool_calls" }

\* A text without its data lines that fail to parse.
parses(line) == ~ failsToParse(line)

RECURSIVE JoinLines(_)
JoinLines(lines) ==
  IF Len(lines) = 1 THEN Head(lines)
  ELSE Head(lines) \o <<"LF">> \o JoinLines(Tail(lines))

WithoutFailingLines(text) ==
  JoinLines(SelectSeq(CompleteLines(text), parses) \o <<split(text)[Len(split(text))]>>)

HasFailingLine(text) ==
  \E k \in DOMAIN CompleteLines(text) : failsToParse(CompleteLines(text)[k])

\* C18: a data line whose payload is not valid JSON changes nothing: when
\* the stream has ended, the events and every other local of the read loop
\* are those of the same body without such lines, so the lines after it
\* are processed as if it were absent.
C18_ParseFailureSkipped ==
  StreamDone =>
    rs.loc = [readChunk(ReaderLocals, WithoutFailingLines(decode(rs.body).text))
                EXCEPT !.chunkCount = rs.loc.chunkCount]

\* A body whose first line fails to parse has been read to its end, and the
\* finish record on the line after it has been processed.
C18_Witness ==
  /\ StreamDone
  /\ rs.body = <<"dat", "a: ", "T<", "LF", "dat", "a: ", "E<", "E>", "LF">>
  /\ HasFailingLine(decode(rs.body).text)
  /\ rs.loc.chunkCount = 3
  /\ rs.loc.lastFinishReason = <<"STOP">>

\* The text events that the segments of a part list call for: one for each
\* segment that is not a thought and has a non-empty text.
RECURSIVE TextEventsOfParts(_)
TextEventsOfParts(parts) ==
  IF parts = <<>> THEN <<>>
  ELSE (IF Head(parts).thought = FALSE /\ Head(parts).text # NULL
           /\ Val(Head(parts).text) # <<>>
        THEN << [type |-> "text", content |-> Val(Head(parts).text)] >>
        ELSE <<>>) \o TextEventsOfParts(Tail(parts))

RECURSIVE TextEventsOfLines(_)
TextEventsOfLines(lines) ==
  IF lines = <<>> THEN <<>>
  ELSE (IF RecordOf(Head(lines)) # NULL /\ Val(RecordOf(Head(lines))).parts # NULL
        THEN TextEventsOfParts(Val(Val(RecordOf(Head(lines))).parts))
        ELSE <<>>) \o TextEventsOfLines(Tail(lines))

RECURSIVE ContentsOf(_)
ContentsOf(events) ==
  IF events = <<>> THEN <<>> ELSE Head(events).content \o ContentsOf(Tail(events))

IsTextEvent(event) == event.type = "text"

\* C19: when the stream has ended, the text events are, in order, one for
\* each segment of a parsed record that is not a thought and has a non-empty
\* text (a text of spaces or line breaks included), and the accumulated text
\* is the concatenation of their contents.
C19_EveryTextSegmentEmitted ==
  StreamDone =>
    /\ SelectSeq(rs.loc.events, IsTextEvent)
         = TextEventsOfLines(CompleteLines(decode(rs.body).text))
    /\ rs.loc.fullTextContent
         = ContentsOf(TextEventsOfLines(CompleteLines(decode(rs.body).text)))

\* The outcome of normalizing the outcome of a call.
normalizedAgain(outcome) ==
  IF outcome = TypeError THEN TypeError ELSE normalizeJsonSchema(outcome)

\* C20: normalizeJsonSchema is idempotent: normalizing the result of a call
\* gives that result again, for objects, arrays, nested properties, items,
\* additionalProperties and values that are not objects.
C20_NormalizeIdempotent ==
  (probe # NULL /\ Val(probe).normalized # NULL) =>
    normalizedAgain(Val(Val(probe).normalized)) = Val(Val(probe).normalized)

\* A schema with an unsupported keyword under a property of an items schema
\* has been normalized, and the keyword is gone from the result.
C20_Witness ==
  /\ probe # NULL
  /\ Val(probe).schema =
       Obj([ k \in {"items"} |->
         Obj([ k2 \in {"properties"} |->
           Obj([ n \in {"a"} |-> Obj([ k3 \in {"minLength"} |-> Prim("x") ]) ]) ]) ])
  /\ Val(probe).normalized =
       << Obj([ k \in {"items"} |->
            Obj([ k2 \in {"properties"} |->
              Obj([ n \in {"a"} |-> Obj([ k3 \in {} |-> JNull ]) ]) ]) ]) >>

\* The object keys of a JSON value at any depth, and those of the schema
\* objects that normalizeJsonSchema visits: the value itself, the elements
\* of an array, the values of properties, items, and additionalProperties.
RECURSIVE KeysAnywhere(_)
KeysAnywhere(value) ==
  IF value.t = "obj"
  THEN (DOMAIN value.o) \cup UNION { KeysAnywhere(value.o[k]) : k \in DOMAIN value.o }
  ELSE IF value.t = "arr"
  THEN UNION { KeysAnywhere(value.a[i]) : i \in DOMAIN value.a }
  ELSE {}

RECURSIVE SchemaKeysOf(_)
SchemaKeysOf(value) ==
  IF value.t = "arr"
  THEN UNION { SchemaKeysOf(value.a[i]) : i \in DOMAIN value.a }
  ELSE IF value.t = "obj"
  THEN (DOMAIN value.o)
       \cup (IF "properties" \in DOMAIN value.o /\ value.o["properties"].t = "obj"
             THEN UNION { SchemaKeysOf(value.o["properties"].o[n]) :
                            n \in DOMAIN value.o["properties"].o }
             ELSE {})
       \cup (IF "items" \in DOMAIN value.o
             THEN SchemaKeysOf(value.o["items"]) ELSE {})
       \cup (IF "additionalProperties" \in DOMAIN value.o
             THEN SchemaKeysOf(value.o["additionalProperties"]) ELSE {})
  ELSE {}

\* The entries that a call keeps as they are.
PreservedKeys == { "type", "enum", "required", "description", "default", "format" }

PreservesEntries(input, output) ==
  input.t = "obj" =>
    /\ output.t = "obj"
    /\ \A k \in PreservedKeys \cap DOMAIN input.o :
         k \in DOMAIN output.o /\ output.o[k] = input.o[k]

Normalized == probe # NULL /\ Val(probe).normalized # NULL
                /\ Val(Val(probe).normalized) # TypeError

\* C21 as stated: no unsupported keyword is an object key anywhere in the
\* output of normalizeJsonSchema, at any depth, and the type, enum, required,
\* description, default and format entries of the input are preserved.
C21_NoUnsupportedKeyAnywhere ==
  Normalized =>
    /\ KeysAnywhere(Val(Val(probe).normalized)) \cap UNSUPPORTED_SCHEMA_KEYS = {}
    /\ PreservesEntries(Val(probe).schema, Val(Val(probe).normalized))

\* C21 amended: no unsupported keyword is a key of a schema object of the
\* output (the output itself, array elements, property values, items,
\* additionalProperties), and the type, enum, required, description, default
\* and format entries of the input are preserved; the names of properties and
\* the values of entries that are kept are left as they are.
C21_NoUnsupportedKeyInSchemas ==
  Normalized =>
    /\ SchemaKeysOf(Val(Val(probe).normalized)) \cap UNSUPPORTED_SCHEMA_KEYS = {}
    /\ PreservesEntries(Val(probe).schema, Val(Val(probe).normalized))

\* A schema with an unsupported keyword next to a type entry, under a
\* property, has been normalized.
C21_Witness ==
  /\ Normalized
  /\ Val(probe).schema =
       Obj([ k \in {"properties"} |->
         Obj([ n \in {"a"} |->
           Obj([ k2 \in {"type", "pattern"} |-> Prim("x") ]) ]) ])
  /\ Val(Val(probe).normalized) =
       Obj([ k \in {"properties"} |->
         Obj([ n \in {"a"} |-> Obj([ k2 \in {"type"} |-> Prim("x") ]) ]) ])

\* The request of the run has been built, and its contents.
RequestBuilt ==
  probe # NULL /\ Val(probe).request # NULL /\ ~ Val(Val(probe).request).threw

Contents == Val(Val(probe).request).contents

\* C22: when thinking is enabled for the requested model, every part of the
\* last model turn of the built request that is not a function call carries
\* a boolean thought tag.
C22_FinalTurnTagged ==
  (RequestBuilt /\ thinkingEnabled(Val(probe).modelName)
     /\ lastModelIndex(Contents) # 0) =>
    \A k \in DOMAIN Contents[lastModelIndex(Contents)].parts :
      Contents[lastModelIndex(Contents)].parts[k].functionCall = NULL =>
        Contents[lastModelIndex(Contents)].parts[k].thought # NULL

\* The last message of the request, and what it holds.
LastMessage == Val(probe).messages[Len(Val(probe).messages)]

IsEmptyUserMessage(message) ==
  /\ message.role \in { "user", "system" }
  /\ extractImagesFromContent(message.content).text = <<>>
  /\ extractImagesFromContent(message.content).images = <<>>

IsEmptyAssistantMessage(message) ==
  /\ message.role = "assistant"
  /\ message.tool_calls = <<>>
  /\ \/ message.content = NULL
     \/ /\ Val(message.content).form = "string"
        /\ trim(Val(message.content).text) = <<>>

HoldsOneEmptyText(turn) ==
  Len(turn.parts) = 1 /\ turn.parts[1].text = << <<>> >>

\* C23: every turn of the built contents has at least one part; a user or
\* system message with empty text and no parseable image, and an assistant
\* message with neither content nor tool calls, yield a turn that holds one
\* empty-text part.
C23_NoEmptyTurn ==
  RequestBuilt =>
    /\ \A i \in DOMAIN Contents : Len(Contents[i].parts) >= 1
    /\ (Val(probe).messages # <<>> /\ IsEmptyUserMessage(LastMessage)) =>
         /\ Contents[Len(Contents)].role = "user"
         /\ HoldsOneEmptyText(Contents[Len(Contents)])
    /\ (Val(probe).messages # <<>> /\ IsEmptyAssistantMessage(LastMessage)) =>
         /\ Contents[Len(Contents)].role = "model"
         /\ HoldsOneEmptyText(Contents[Len(Contents)])

\* A request of an empty user message and an empty assistant message has
\* been built: two turns of one empty-text part each.
C23_Witness ==
  /\ RequestBuilt
  /\ Len(Val(probe).messages) = 2
  /\ IsEmptyUserMessage(Val(probe).messages[1])
  /\ IsEmptyAssistantMessage(Val(probe).messages[2])
  /\ Len(Contents) = 2
  /\ HoldsOneEmptyText(Contents[1])
  /\ HoldsOneEmptyText(Contents[2])

\* The tool_call_ids of the tool messages in message order, the number of
\* maximal runs of consecutive tool messages, and the ids of the
\* functionResponse parts of the contents in turn and part order.
RECURSIVE ToolIds(_)
ToolIds(messages) ==
  IF messages = <<>> THEN <<>>
  ELSE (IF Head(messages).role = "tool" THEN << Head(messages).tool_call_id >> ELSE <<>>)
       \o ToolIds(Tail(messages))

ToolRuns(messages) ==
  Cardinality({ i \in DOMAIN messages :
                  /\ messages[i].role = "tool"
                  /\ (i = 1 \/ messages[i - 1].role # "tool") })

RECURSIVE ResponseIdsOfParts(_)
ResponseIdsOfParts(parts) ==
  IF parts = <<>> THEN <<>>
  ELSE (IF Head(parts).functionResponse # NULL
        THEN << Val(Head(parts).functionResponse).id >> ELSE <<>>)
       \o ResponseIdsOfParts(Tail(parts))

RECURSIVE ResponseIds(_)
ResponseIds(contents) ==
  IF contents = <<>> THEN <<>>
  ELSE ResponseIdsOfParts(Head(contents).parts) \o ResponseIds(Tail(contents))

IsResponseTurn(turn) == \E k \in DOMAIN turn.parts : turn.parts[k].functionResponse # NULL

CompletionModelRequest ==
  /\ route.kind = "chat"
  /\ route.pc \in {"account", "body"}
  /\ startsWith(baseModelNameOf(segmentsOf(route.model)), "chat_")

\* The step in which the selection call gets the answer of the OAuth token
\* endpoint (oauthService.refreshAccessToken has been called).
RefreshCall == sel.pc = "refresh" /\ sel' # sel

\* C25: while a chat request for a chat_ model is served, no OAuth token
\* refresh is made, no signature is looked up and no upstream call is
\* started: the request is rejected before any of them.
C25_RejectedBeforeAnyCall ==
  [][ CompletionModelRequest =>
        /\ ~ RefreshCall
        /\ route'.calls = <<>>
        /\ route'.pc # "fetch" ]_vars

\* ------------------------------------------------------------------ C26
\* The last answer of the upstream to the request being served was HTTP 403.
AnsweredForbidden ==
  /\ route.upstream # <<>>
  /\ route.upstream[Len(route.upstream)] = 403

\* C26: after an upstream 403 on a chat or image call the account used is
\* disabled (status = 0), and the request does not end on that answer: a
\* further account selection has been made for it and the failure reported,
\* if any, is not the upstream status.
C26_ForbiddenRetriedOnFreshAccount ==
  AnsweredForbidden =>
    /\ \A a \in getAccountByCookieId(Val(route.account)) : a.status = 0
    /\ route.pc = "done" =>
         /\ route.selections > Len(route.upstream)
         /\ route.failure # "upstream status"

\* The part of C26 the handlers do keep: the account a 403 was answered for
\* is disabled.
ForbiddenAccountDisabled ==
  AnsweredForbidden =>
    \A a \in getAccountByCookieId(Val(route.account)) : a.status = 0

\* ------------------------------------------------------------------ C27
\* A request of the non-streaming chat path or of the image path has ended
\* on a failure; on these paths nothing is written before the answer.
FailedBeforeFirstByte ==
  /\ route.pc = "done"
  /\ ~ (route.kind = "chat" /\ route.stream)
  /\ route.failure # "none"

\* The response is one JSON error body under a status that is not 2xx.
OneStructuredError(res) ==
  /\ res.type = "json"
  /\ res.ended = 1
  /\ res.lateWrites = 0
  /\ Len(res.written) = 1
  /\ res.written[1].kind = "error"
  /\ res.status >= 300

\* C27: on the non-streaming chat path and the image path every failure found
\* before a response byte is written (no account, unsupported model, an
\* upstream status that is not 2xx, 429 and quota exhaustion included) is
\* answered with exactly one structured JSON error under a non-2xx status:
\* never a 200 completion, never no response at all.
C27_FailureIsOneStructuredError ==
  FailedBeforeFirstByte => OneStructuredError(route.res)

\* The image path alone keeps C27: its whole handler is inside one try block.
ImageFailureIsOneStructuredError ==
  (FailedBeforeFirstByte /\ route.kind = "image") => OneStructuredError(route.res)

\* ------------------------------------------------------------------ C28
\* The request is a streaming chat request whose event stream has been
\* opened (routes.js 1044-1046): generateResponse has been called.
StreamOpened ==
  /\ route.kind = "chat" /\ route.stream
  /\ route.pc \in {"fetch", "read", "bookkeeping", "done"}
  /\ route.calls # <<>>

\* generateResponse ended with an error event or with an exception.
EndedInError == route.loc.hasError \/ exch.result = "thrown"

\* The chunks of a kind among those written.
ChunksOfKind(written, kind) == { i \in DOMAIN written : written[i].kind = kind }

IsErrorDelta(chunk) ==
  /\ chunk.kind = "delta"
  /\ chunk.field = "content"
  /\ Len(chunk.content) >= 3
  /\ SubSeq(chunk.content, 1, 3) = <<"LF", "LF", "error: ">>

\* C28: on the streaming chat path, once the event stream is open, nothing is
\* written after the response has been ended and it is ended at most once;
\* when the request is over, whatever the outcome of generateResponse, it
\* has been ended exactly once, with exactly one finish chunk and one [DONE]
\* marker as its last two chunks, and after an error event or an exception
\* the chunk before them is the error written as a content delta.
C28_StreamEndedExactlyOnce ==
  StreamOpened =>
    /\ route.res.lateWrites = 0
    /\ route.res.ended <= 1
    /\ route.pc = "done" =>
         LET written == route.res.written
             n == Len(written)
         IN  /\ route.res.ended = 1
             /\ n >= 2
             /\ ChunksOfKind(written, "finish") = { n - 1 }
             /\ ChunksOfKind(written, "[DONE]") = { n }
             /\ EndedInError => (n >= 3 /\ IsErrorDelta(written[n - 2]))

\* A streaming request that ended on an error event after a 429.
C28_Witness ==
  /\ StreamOpened
  /\ route.pc = "done"
  /\ route.loc.hasError
  /\ route.res.ended = 1

\* ------------------------------------------------------------------ C29
\* The handler's state after the callback of a path has been given the
\* events in turn and the path's closing code has run.
RECURSIVE streamFold(_, _)
streamFold(st, events) ==
  IF events = <<>> THEN st
  ELSE streamFold(streamCallback(st, Head(events)), Tail(events))

RECURSIVE nonStreamFold(_, _)
nonStreamFold(st, events) ==
  IF events = <<>> THEN st
  ELSE nonStreamFold(nonStreamCallback(st, Head(events)), Tail(events))

streamRun(events, promptTokens, model) ==
  streamEpilogue(streamFold([ loc |-> RouteLocals, res |-> NoResponse ], events),
                 promptTokens, model)

nonStreamRun(events, promptTokens, model) ==
  nonStreamEpilogue(nonStreamFold([ loc |-> RouteLocals, res |-> NoResponse ], events),
                    promptTokens, model)

\* The text a path hands to countStringTokens for completion_tokens.
countedText(st) == st.loc.fullContent \o st.loc.toolCallArgs

\* The usage object of a response: that of its finish chunk or of its body.
reportedUsage(res) ==
  IF res.type = "event-stream"
  THEN res.written[Len(res.written) - 1].usage
  ELSE res.written[1].usage

\* A chat request has ended normally: generateResponse returned after a
\* sequence of text, reasoning, image and tool-call events.
ChatCompleted ==
  /\ route.kind = "chat"
  /\ route.pc = "done"
  /\ route.failure = "none"
  /\ exch.result = "returned"
  /\ ~ route.loc.hasError

SameUsageWithoutImages ==
  (ChatCompleted /\ route.loc.collectedImages = <<>>) =>
    LET viaStream == streamRun(route.events, route.promptTokens, route.model)
        viaJson == nonStreamRun(route.events, route.promptTokens, route.model)
    IN  /\ countedText(viaStream) = countedText(viaJson)
        /\ reportedUsage(route.res) = reportedUsage(viaStream.res)
        /\ reportedUsage(route.res) = reportedUsage(viaJson.res)

\* ------------------------------------------------------------------ C30
\* The upstream call of a chat request is in progress: fetch is pending or
\* the response body is being read.
ChatCallInProgress ==
  /\ route.kind = "chat"
  /\ route.pc \in {"fetch", "read"}

\* C30: as long as the upstream call of a chat request is in progress, the
\* wait for the response head and the reading of the body included, its abort
\* timer is armed, so that a call whose upstream has stopped sending can
\* still be aborted and ended by the timer.
C30_TimerCoversWholeCall ==
  ChatCallInProgress => route.timer = "armed"

\* The part of C30 that holds: the timer covers the wait for the response
\* head.
TimerCoversFetch ==
  route.pc = "fetch" => route.timer = "armed"

\* ------------------------------------------------ the OAuth handshake claims
\* The state check of call c passes, or fails, at this step.
Accepts(c) == Call(c).pc = "idle" /\ oauth'.calls[c].pc = "exchange"

Rejects(c) == Call(c).pc = "idle" /\ oauth'.calls[c].pc = "rejected"

IssuedToken(state) == state \in 1..Len(oauth.issuedAt)

AgeOf(state) == now - oauth.issuedAt[state]

RejectedForGood(c) ==
  /\ Call(c).pc = "rejected" => oauth'.calls[c] = Call(c)
  /\ Rejects(c) => UNCHANGED <<accounts, model_quotas, user_shared_quota_pool>>

\* C31 as stated: handleCallback accepts a state token only if
\* generateAuthUrl issued it less than five minutes earlier and no successful
\* callback has consumed it; a call with any other token is rejected and
\* never reaches the token exchange, the capability check or a write.
C31_AcceptedWithinFiveMinutes ==
  [][ \A c \in Callbacks :
        /\ Accepts(c) =>
             /\ IssuedToken(oauth'.calls[c].state)
             /\ AgeOf(oauth'.calls[c].state) < StateTtlMs
             /\ oauth'.calls[c].state \notin oauth.consumed
        /\ RejectedForGood(c) ]_vars

\* C31 amended: handleCallback accepts a state token only if generateAuthUrl
\* issued it no more than five minutes earlier and no successful callback
\* has consumed it; a token that is unknown, older than five minutes or
\* consumed is rejected, and a rejected call never reaches the token
\* exchange, the capability check or a write.
C31_AcceptedUpToFiveMinutes ==
  [][ \A c \in Callbacks :
        /\ Accepts(c) =>
             /\ IssuedToken(oauth'.calls[c].state)
             /\ AgeOf(oauth'.calls[c].state) <= StateTtlMs
             /\ oauth'.calls[c].state \notin oauth.consumed
        /\ (Call(c).pc = "idle" /\ oauth'.calls[c].pc # "idle") =>
             LET state == oauth'.calls[c].state
             IN  (\/ ~ IssuedToken(state)
                  \/ AgeOf(state) > StateTtlMs
                  \/ state \in oauth.consumed) => Rejects(c)
        /\ RejectedForGood(c) ]_vars

\* One call has returned an account and a later call with the same state
\* token has been rejected.
C31_Witness ==
  \E c1, c2 \in Callbacks :
    /\ Call(c1).pc = "returned"
    /\ Call(c2).pc = "rejected"
    /\ Call(c2).state = Call(c1).state
    /\ Call(c1).state \in oauth.consumed

\* C32: an account row exists only for a call whose capability request
\* succeeded with a non-empty model list; a call whose token exchange or
\* capability check failed has written no account, quota or pool row.
C32_AccountOnlyAfterCapabilityCheck ==
  /\ \A c \in Callbacks :
       /\ Call(c).created => Call(c).check = "ok"
       /\ Call(c).error \in { "exchange", "capability" } => ~ Call(c).created
  /\ \A a \in accounts :
       \E c \in Callbacks : Call(c).created /\ Call(c).cookie_id = a.cookie_id
  /\ \A q \in model_quotas :
       \E c \in Callbacks : Call(c).created /\ Call(c).cookie_id = q.cookie_id
  /\ \A r \in user_shared_quota_pool :
       \E c \in Callbacks :
         Call(c).created /\ Call(c).is_shared = 1 /\ Call(c).user_id = r.user_id

\* One call has failed at the token exchange and one at the capability
\* check, and the three tables are empty.
C32_Witness ==
  /\ \E c1, c2 \in Callbacks :
       /\ Call(c1).error = "exchange"
       /\ Call(c2).error = "capability" /\ Call(c2).check = "empty"
  /\ accounts = {} /\ model_quotas = {} /\ user_shared_quota_pool = {}

\* Call c has run its ceiling recomputation to the end, or has none to run.
RecomputationOver(c) ==
  (Call(c).created /\ Call(c).is_shared = 1) => Call(c).pc \in { "finish", "returned" }

\* No call has ended with a violation of uk_user_shared_model.
NoUniquenessViolation ==
  \A c \in Callbacks : Call(c).error # "uk_user_shared_model"

\* C34 as stated: concurrent recomputations of the ceiling of one (user,
\* model) all complete without a uniqueness violation, and when they are
\* over there is exactly one pool row and it holds the ceiling recomputed
\* from the user's enabled shared accounts.
C34_ConcurrentRecomputationsConverge ==
  /\ NoUniquenessViolation
  /\ ((\A c \in Callbacks : RecomputationOver(c))
        /\ (\E c \in Callbacks : Call(c).created /\ Call(c).is_shared = 1)) =>
       \A m \in HandshakeModels :
         /\ Cardinality(poolRows(user_shared_quota_pool, "u1", m)) = 1
         /\ \A r \in poolRows(user_shared_quota_pool, "u1", m) :
              r.max_quota = QuotaPerSharedCookie * get_user_shared_cookie_count(accounts, "u1")

\* Call c fails at this step after it has inserted its account row.
FailsAfterCreation(c) ==
  Call(c).created /\ Call(c).pc # "failed" /\ oauth'.calls[c].pc = "failed"

\* C40: when a step after the account creation fails, the account row stays
\* in the table and the state entry stays in the map; an entry leaves the
\* map only when five minutes have passed or a callback with its token
\* returns an account.
C40_NoRollbackOnFailure ==
  [][ /\ \A c \in Callbacks :
           FailsAfterCreation(c) =>
             /\ accounts' = accounts
             /\ \E a \in accounts' : a.cookie_id = Call(c).cookie_id
             /\ oauth'.stateMap = oauth.stateMap
      /\ \A e \in oauth.stateMap \ oauth'.stateMap :
           \/ now - e.timestamp >= StateTtlMs
           \/ \E c \in Callbacks :
                Call(c).pc = "finish" /\ oauth'.calls[c].pc = "returned"
                  /\ Call(c).state = e.state ]_vars

\* A call has failed after it created its account; the row and the state
\* entry are still there.
C40_Witness ==
  \E c \in Callbacks :
    /\ Call(c).pc = "failed" /\ Call(c).created
    /\ Call(c).error \in { "quotas", "uk_user_shared_model" }
    /\ getAccountByCookieId(Call(c).cookie_id) # {}
    /\ stateMapGet(oauth.stateMap, Call(c).state) # {}

\* ------------------------------------------------- selection under interleaving
\* The row of the account the call returns at this step, as the table has
\* it after the step.
ReturnedRows == { a \in accounts' : a.cookie_id = Val(sel'.account).cookie_id }

\* C36: whatever other handlers run between the steps of getAvailableAccount,
\* the account it returns is, at the moment of the return, a row of the
\* table with status = 1 and need_refresh = FALSE.
C36_ReturnedAccountEnabled ==
  [][ ReturnsAccount =>
        /\ ReturnedRows # {}
        /\ \A a \in ReturnedRows : a.status = 1 /\ a.need_refresh = FALSE ]_vars

\* The rows flagged by markAccountNeedRefresh.
Flagged == { a \in accounts : a.need_refresh = TRUE }

\* No step takes the flag off a row.
FlagStays ==
  \A a \in Flagged : \A b \in accounts' : b.cookie_id = a.cookie_id => b.need_refresh = TRUE

\* The query of getAvailableAccount runs at this step and finds candidates.
QueryReturnsRows == sel.pc = "query" /\ sel'.pc = "filter"

BodyText == decode(rs.body).text

LastLine(text) == split(text)[Len(split(text))]

\* The first signature token of the parsed records of the lines, in order.
RECURSIVE FirstSignatureOfLines(_)
FirstSignatureOfLines(lines) ==
  IF lines = <<>> THEN NULL
  ELSE IF RecordOf(Head(lines)) # NULL /\ Val(RecordOf(Head(lines))).parts # NULL
            /\ firstSignature(Val(Val(RecordOf(Head(lines))).parts)) # NULL
       THEN firstSignature(Val(Val(RecordOf(Head(lines))).parts))
       ELSE FirstSignatureOfLines(Tail(lines))

\* C35: at every point of the read loop the captured signature is the first
\* signature token of the records read so far, in stream order (none when
\* no record carried one), so a later token never replaces it.
C35_FirstSignatureCaptured ==
  rs.pc # "idle" =>
    rs.loc.collectedSignature = FirstSignatureOfLines(CompleteLines(ConsumedText))

\* C38: when the stream has ended, the locals of the read loop are those the
\* complete lines alone produce; the text after the last line break is
\* still in the buffer and has produced no event, finish reason or
\* signature.
C38_TailOfBufferDiscarded ==
  StreamDone =>
    rs.loc = [processLines(ReaderLocals, CompleteLines(BodyText))
                EXCEPT !.buffer = LastLine(BodyText),
                       !.chunkCount = rs.loc.chunkCount]

\* The body is one finish record without a line break; the stream has ended
\* with the record in the buffer and no finish reason recorded.
C38_Witness ==
  /\ StreamDone
  /\ rs.body = <<"dat", "a: ", "E<", "E>">>
  /\ CarriesFinish(rs.loc.buffer)
  /\ rs.loc.lastFinishReason = NULL
  /\ rs.loc.events = <<>>

\* What the callback of the streaming route receives for an event of the
\* read loop.
callbackData(event) ==
  IF event.type = "tool_calls" THEN ToolCallsEvent(event.content)
  ELSE IF event.type = "image" THEN ImageEvent(event.content)
  ELSE [ type |-> event.type, content |-> event.content, tool_calls |-> <<>> ]

\* The response of the streaming route to the events of the read loop.
StreamedResponse ==
  streamRun([ k \in DOMAIN rs.loc.events |-> callbackData(rs.loc.events[k]) ], 0,
            "gemini-2.5-pro").res

\* The read locals once function-call segments have been buffered.
BufferedCalls == processParts(ReaderLocals, Val(Records["F"].parts))

FinishLinesOfBody ==
  { k \in DOMAIN CompleteLines(BodyText) : CarriesFinish(CompleteLines(BodyText)[k]) }

FunctionCallLinesOfBody ==
  { k \in DOMAIN CompleteLines(BodyText) : CarriesFunctionCall(CompleteLines(BodyText)[k]) }

StartsGenerateResponse ==
  route.pc = "body" /\ route'.pc = "fetch" /\ route.kind = "chat"

RefreshSettles ==
  route.refresh = "pending" /\ route'.refresh = "settled"

C33_RefreshInBackground ==
  [][ /\ StartsGenerateResponse =>
           /\ exch'.quotaBefore = getQuota(model_quotas, exch'.cookie_id, route.model)
           /\ route'.calls[Len(route'.calls)] = "upstream"
           /\ route'.refresh = "pending" <=>
                 /\ exch'.quotaBefore # NULL
                 /\ Val(route'.cacheAge) > CACHE_TTL
      /\ RefreshSettles =>
           /\ [route' EXCEPT !.refresh = "pending"] = route
           /\ exch' = exch
           /\ rs' = rs
           /\ accounts' = accounts ]_vars

\* The upstream has delivered events to a request that read a stale row
\* and whose refresh is still pending.
C33_Witness ==
  /\ route.refresh = "pending"
  /\ route.pc \in {"read", "done"}
  /\ route.events # <<>>
  /\ exch.quotaBefore # NULL
  /\ Val(route.cacheAge) > CACHE_TTL


====
